---------------------------- MODULE Spec2Model ----------------------------
(***************************************************************************)
(* Ingestion pipeline, identity resolution and background cover-art fetch  *)
(* queue of the AccuRadio parser (src/src/services/parser.js), with the    *)
(* mongoose schemas of src/src/models/*.js as the entity store.            *)
(***************************************************************************)
EXTENDS Integers, Sequences, FiniteSets, TLC

VARIABLES
    albums,              \* rows of collection 'albums'
    artists,             \* rows of collection 'artists'
    composers,           \* rows of collection 'composers'
    tracks,              \* rows of collection 'tracks'
    ads,                 \* rows of collection 'ads'
    nextId,              \* next server-assigned surrogate id (ObjectId)
    files,               \* file names present in IMGS_DIR (the asset cache)
    imageQueue,          \* parser.js: let imageQueue = []
    isProcessingImages,  \* parser.js: let isProcessingImages = false
    wpc,                 \* where processImageQueue is suspended
    cur,                 \* the item processImageQueue shifted last
    run,                 \* the parseAndStore call: status, data.length, i, stats
    data,                \* the fetched array, when the feed is fixed in advance
    read,                \* number of feed records read so far, over all runs
    last,                \* what the most recent loop iteration of parseAndStore did
    hist,                \* the earlier parseAndStore calls over the fixed feed
    reqs,                \* per cdcover: HTTP requests issued by downloadImageNow
    loops,               \* calls of processImageQueue that are inside its loop
    writes,              \* per cdcover: files written by downloadImageNow
    payload,             \* what the last fetch of the feed gave
    other,               \* a second parseAndStore call, started while run is active
    archive,             \* the zip produced by the last GET /export
    reply,               \* the response to the last /export, /import or DELETE /all
    ops                  \* number of such requests served so far

store == <<albums, artists, composers, tracks, ads, nextId>>
queue == <<imageQueue, isProcessingImages, wpc, cur, reqs, loops>>
vars  == <<albums, artists, composers, tracks, ads, nextId, files, imageQueue,
           isProcessingImages, wpc, cur, run, data, read, last, hist, reqs,
           loops, writes, payload, other, archive, reply, ops>>
serving == <<payload, other, archive, reply, ops>>

---------------------------------------------------------------------------
(* Bounds of the model.                                                    *)
MaxRecords == 3      \* feed records read per behaviour, over all runs
MaxFeedLen == 2      \* longest feed (data.length) when the feed is fixed in advance
MaxRuns    == 2      \* parseAndStore calls over a feed fixed in advance

---------------------------------------------------------------------------
(* Values.  Null stands for JavaScript null and undefined in a scalar      *)
(* field, NoRef for an absent ObjectId reference.                          *)
Null   == "null"
NoRef  == 0
NoPath == <<>>       \* localImage: null
Absent == <<"absent">>   \* a row without the field localImage

\* !album.localImage: the field is null or is not there.
NoImage(localImage) == localImage \in {NoPath, Absent}

\* A raw id of the feed: a string, an object {$oid: v}, or absent.
IdStr(v) == [t |-> "string", v |-> v]
IdOid(v) == [t |-> "oid", v |-> v]
NoId     == [t |-> "none", v |-> Null]

\* A cdcover is a string, kept as the sequence of its pieces: the piece
\* "/covers/", the piece "/", and other text.  <<>> is the absent cdcover.
NoCover == <<>>
CoverA  == <<"/covers/", "g", "/", "x">>     \* /covers/g/x
CoverB  == <<"/covers/", "g", "_", "x">>     \* /covers/g_x
CoverC  == <<"/covers/", "y">>               \* /covers/y
Covers  == {CoverA, CoverB, CoverC}

RECURSIVE RemoveFirst(_, _)
RemoveFirst(s, piece) ==
    IF s = <<>> THEN <<>>
    ELSE IF Head(s) = piece THEN Tail(s)
    ELSE <<Head(s)>> \o RemoveFirst(Tail(s), piece)

RECURSIVE ReplaceAll(_, _, _)
ReplaceAll(s, piece, by) ==
    IF s = <<>> THEN <<>>
    ELSE (IF Head(s) = piece THEN by ELSE <<Head(s)>>) \o ReplaceAll(Tail(s), piece, by)

\* parser.js getLocalFilename: cdcover.replace('/covers/', '').replace(/\//g, '_')
\* (a later "/covers/" piece keeps its text and has both its slashes replaced).
getLocalFilename(cdcover) ==
    ReplaceAll(ReplaceAll(RemoveFirst(cdcover, "/covers/"), "/", <<"_">>),
               "/covers/", <<"_", "covers", "_">>)

\* parser.js getLocalPath: path.join(IMGS_DIR, filename); IMGS_DIR is fixed, so
\* a path is identified with its file name.
getLocalPath(cdcover) == getLocalFilename(cdcover)

\* parser.js extractId
extractId(idObj) ==
    IF idObj.t = "none" \/ idObj.v = "" THEN Null
    ELSE IF idObj.t = "string" THEN idObj.v
    ELSE IF idObj.t = "oid" THEN idObj.v
    ELSE Null

---------------------------------------------------------------------------
(* The fetch queue (parser.js 14-158).  Q is the queue's state:            *)
(* [imageQueue, isProcessingImages, wpc, cur, reqs]; fs is the set of file *)
(* names in IMGS_DIR.  An item is {cdcover, albumId, localPath}; its field *)
(* dup is bookkeeping: a later call for the same cdcover found it queued.  *)
(* asked lists the calls of queueImageDownload made since the state was    *)
(* taken, as pairs <<cdcover, albumId>>.                                   *)
NoItem == [cdcover |-> NoCover, albumId |-> NoRef, localPath |-> <<>>, dup |-> FALSE]

QueueState == [imageQueue |-> imageQueue, isProcessingImages |-> isProcessingImages,
               wpc |-> wpc, cur |-> cur, reqs |-> reqs, loops |-> loops,
               asked |-> <<>>]

\* fs.existsSync(localPath), parser.js 43 and 95
existsSync(fs, localPath) == localPath \in fs

\* imageQueue.some(item => item.cdcover === cdcover), parser.js 48
InQueue(q, cdcover) == \E k \in 1..Len(q) : q[k].cdcover = cdcover

\* The bookkeeping of a call that found its cdcover queued.
MarkDup(q, cdcover) ==
    [k \in 1..Len(q) |-> IF q[k].cdcover = cdcover THEN [q[k] EXCEPT !.dup = TRUE] ELSE q[k]]

\* A download that is started whatever the cache holds.
DownloadUnchecked(Q, fs, item) ==
    [Q EXCEPT !.wpc = "request", !.cur = item,
              !.reqs = [@ EXCEPT ![item.cdcover] = @ + 1]]

\* downloadImageNow up to its first suspension (parser.js 85-102): return at
\* once when the file exists ("cached": the worker goes on to its pacing
\* delay without a request), else issue the GET and wait for the response.
BeginDownload(Q, fs, item) ==
    IF existsSync(fs, item.localPath)
    THEN [Q EXCEPT !.wpc = "cached", !.cur = item]
    ELSE [Q EXCEPT !.wpc = "request", !.cur = item,
                   !.reqs = [@ EXCEPT ![item.cdcover] = @ + 1]]

\* A loop that takes the newest pending entry.
DrainNewestFirst(Q, fs) ==
    IF Len(Q.imageQueue) > 0
    THEN BeginDownload([Q EXCEPT !.imageQueue = SubSeq(@, 1, Len(@) - 1)], fs,
                       Q.imageQueue[Len(Q.imageQueue)])
    ELSE [Q EXCEPT !.isProcessingImages = FALSE, !.wpc = "idle", !.cur = NoItem,
                   !.loops = @ - 1]

\* A loop that, with nothing pending, waits and looks again.
DrainPolling(Q, fs) ==
    IF Len(Q.imageQueue) > 0
    THEN BeginDownload([Q EXCEPT !.imageQueue = Tail(@)], fs, Head(Q.imageQueue))
    ELSE [Q EXCEPT !.wpc = "delay"]

\* The loop of processImageQueue from its test to its next suspension
\* (parser.js 70-72), and its exit (parser.js 78).
DrainLoop(Q, fs) ==
    IF Len(Q.imageQueue) > 0
    THEN BeginDownload([Q EXCEPT !.imageQueue = Tail(@)], fs, Head(Q.imageQueue))
    ELSE [Q EXCEPT !.isProcessingImages = FALSE, !.wpc = "idle", !.cur = NoItem,
                   !.loops = @ - 1]

\* A worker that is never started.
NeverStarted(Q, fs) == Q

\* parser.js processImageQueue, from its call to its first suspension
processImageQueue(Q, fs) ==
    IF Q.isProcessingImages \/ Len(Q.imageQueue) = 0 THEN Q
    ELSE DrainLoop([Q EXCEPT !.isProcessingImages = TRUE, !.loops = @ + 1], fs)

\* An enqueue that looks neither at the image directory nor at the list.
queueUnchecked(Q, fs, cdcover, albumId) ==
    LET Q0 == [Q EXCEPT !.asked = Append(@, <<cdcover, albumId>>)]
    IN  IF cdcover = NoCover THEN Q0
        ELSE LET Q1 == [Q0 EXCEPT !.imageQueue =
                            Append(@, [cdcover |-> cdcover, albumId |-> albumId,
                                       localPath |-> getLocalPath(cdcover), dup |-> FALSE])]
             IN  IF ~Q1.isProcessingImages THEN processImageQueue(Q1, fs) ELSE Q1

\* An enqueue that enters the worker's loop whether or not one is running.
queueAndStart(Q, fs, cdcover, albumId) ==
    LET Q0 == [Q EXCEPT !.asked = Append(@, <<cdcover, albumId>>)]
    IN  IF cdcover = NoCover THEN Q0
        ELSE IF existsSync(fs, getLocalPath(cdcover)) THEN Q0
        ELSE IF InQueue(Q0.imageQueue, cdcover)
             THEN [Q0 EXCEPT !.imageQueue = MarkDup(@, cdcover)]
        ELSE DrainLoop([Q0 EXCEPT !.imageQueue =
                            Append(@, [cdcover |-> cdcover, albumId |-> albumId,
                                       localPath |-> getLocalPath(cdcover), dup |-> FALSE]),
                                  !.isProcessingImages = TRUE, !.loops = @ + 1], fs)

\* parser.js queueImageDownload
queueImageDownload(Q, fs, cdcover, albumId) ==
    LET Q0 == [Q EXCEPT !.asked = Append(@, <<cdcover, albumId>>)]
    IN  IF cdcover = NoCover THEN Q0
        ELSE IF existsSync(fs, getLocalPath(cdcover)) THEN Q0
        ELSE IF InQueue(Q0.imageQueue, cdcover)
             THEN [Q0 EXCEPT !.imageQueue = MarkDup(@, cdcover)]
        ELSE LET Q1 == [Q0 EXCEPT !.imageQueue =
                            Append(@, [cdcover |-> cdcover, albumId |-> albumId,
                                       localPath |-> getLocalPath(cdcover), dup |-> FALSE])]
             IN  IF ~Q1.isProcessingImages THEN processImageQueue(Q1, fs) ELSE Q1

\* parser.js getImageQueueStatus
getImageQueueStatus ==
    [pending |-> Len(imageQueue), isProcessing |-> isProcessingImages]

SetQueue(Q) ==
    /\ imageQueue' = Q.imageQueue
    /\ isProcessingImages' = Q.isProcessingImages
    /\ wpc' = Q.wpc
    /\ cur' = Q.cur
    /\ reqs' = Q.reqs
    /\ loops' = Q.loops

\* An update that also stores the cover reference that was downloaded.
UpdateCoverToo(rows, albumId, localPath) ==
    {IF a._id = albumId THEN [a EXCEPT !.localImage = localPath, !.cdcover = cur.cdcover]
     ELSE a : a \in rows}

\* Album.findByIdAndUpdate(albumId, { localImage: localPath }), parser.js 140
findByIdAndUpdate(rows, albumId, localPath) ==
    {IF a._id = albumId THEN [a EXCEPT !.localImage = localPath] ELSE a : a \in rows}

---------------------------------------------------------------------------
(* The entity store: mongoose models over MongoDB collections.             *)

\* Model.findOne(filter): the oldest matching row, as a set of at most one.
Oldest(m) == {r \in m : \A o \in m : r._id <= o._id}

\* A lookup that finds nothing: the test for an existing row left out.
findNothing(rows, originalId) == {}

\* Model.findOne({ originalId })
findByOriginalId(rows, originalId) == Oldest({r \in rows : r.originalId = originalId})

\* The content lookup left out.
findNoContent(rows, trackData) == {}

\* A content lookup that passes over the rows that carry an external id.
findIdlessContent(rows, trackData) ==
    Oldest({r \in rows : /\ r.track_artist = trackData.track_artist
                         /\ r.title = trackData.title
                         /\ r.fn = trackData.fn
                         /\ r.originalId = Null})

\* Track.findOne({ track_artist, title, fn }), parser.js 319-323
findByContent(rows, trackData) ==
    Oldest({r \in rows : /\ r.track_artist = trackData.track_artist
                         /\ r.title = trackData.title
                         /\ r.fn = trackData.fn})

\* originalId: { unique: true, sparse: true } (Track.js 4, Album.js 4, Artist.js 4,
\* Composer.js 4): the insert of a second row with the same originalId is
\* rejected.  A sparse index leaves out only the rows without the field; the
\* parser always sets it, to null when there is no id, so null is a key too.
DuplicateKey(rows, originalId) == \E r \in rows : r.originalId = originalId

\* required: true on a String path: a missing value fails validation.
Missing(v) == v = Null \/ v = ""

\* Ad.js 6: ad_type: { type: String, enum: ['paid', 'unpaid'] }, not required
AdTypeValid(ad_type) == ad_type \in {"paid", "unpaid", Null}

---------------------------------------------------------------------------
(* Feed records.  obj = FALSE is an element that is not an object (null). *)
NoAlbum    == [present |-> FALSE, _id |-> NoId, title |-> Null, cdcover |-> NoCover]
NoArtist   == [present |-> FALSE, _id |-> NoId, artistdisplay |-> Null]
NoComposer == [present |-> FALSE, _id |-> NoId]
AlbumData(id, title, cdcover) ==
    [present |-> TRUE, _id |-> id, title |-> title, cdcover |-> cdcover]
ArtistData(id, display) == [present |-> TRUE, _id |-> id, artistdisplay |-> display]
ComposerData(id) == [present |-> TRUE, _id |-> id]

TrackRecord(id, ta, title, fn, album, artist, composer) ==
    [obj |-> TRUE, _id |-> id, id |-> NoId, track_artist |-> ta, title |-> title,
     fn |-> fn, album |-> album, artist |-> artist, composer |-> composer,
     ad_type |-> Null]
AdRecord(ad_type) ==
    [obj |-> TRUE, _id |-> NoId, id |-> NoId, track_artist |-> "runspot",
     title |-> "sweeper", fn |-> Null, album |-> NoAlbum, artist |-> NoArtist,
     composer |-> NoComposer, ad_type |-> ad_type]
NullElement == [AdRecord(Null) EXCEPT !.obj = FALSE, !.track_artist = Null, !.title = Null]

\* A test that takes a record for an ad by its artist alone.
AdByArtist(item) == item.track_artist = "runspot"

\* A test that takes no record for an ad.
NeverAd(item) == FALSE

\* parser.js isAd
isAd(item) == item.track_artist = "runspot" /\ item.title = "sweeper"

---------------------------------------------------------------------------
(* The identity resolver and the pipeline's loop body.  C is the store and *)
(* the queue as the call sees them: [albums, artists, composers, tracks,   *)
(* ads, nextId, Q].  Each process* operator yields the state it leaves, how *)
(* it ended (st: "null" no row, "hit" existing row, "new" row created,     *)
(* "threw" save rejected) and the row's _id (ref).                         *)
Context == [albums |-> albums, artists |-> artists, composers |-> composers,
            tracks |-> tracks, ads |-> ads, nextId |-> nextId, Q |-> QueueState]

Outcome(C, st, ref) == [C |-> C, st |-> st, ref |-> ref]
TheRow(m) == CHOOSE r \in m : TRUE

\* A resolver that calls for the cover on every hit, cached image or not.
processAlbumAlwaysQueues(C, fs, albumData) ==
    LET originalId == extractId(albumData._id)
        found == Oldest({r \in C.albums : r.originalId = originalId})
        album == [_id |-> C.nextId, originalId |-> originalId, title |-> albumData.title,
                  cdcover |-> albumData.cdcover, localImage |-> NoPath]
    IN  IF ~albumData.present THEN Outcome(C, "null", NoRef)
        ELSE IF originalId = Null THEN Outcome(C, "null", NoRef)
        ELSE IF Missing(albumData.title) THEN Outcome(C, "null", NoRef)
        ELSE IF found # {}
             THEN Outcome(IF albumData.cdcover # NoCover
                          THEN [C EXCEPT !.Q = queueImageDownload(@, fs, albumData.cdcover,
                                                                  TheRow(found)._id)]
                          ELSE C,
                          "hit", TheRow(found)._id)
        ELSE Outcome([C EXCEPT !.albums = @ \cup {album}, !.nextId = @ + 1,
                               !.Q = IF albumData.cdcover # NoCover
                                     THEN queueImageDownload(@, fs, albumData.cdcover, album._id)
                                     ELSE @],
                     "new", album._id)

\* parser.js processAlbum
processAlbum(C, fs, albumData) ==
    LET originalId == extractId(albumData._id)
        found == findByOriginalId(C.albums, originalId)
        album == [_id |-> C.nextId, originalId |-> originalId, title |-> albumData.title,
                  cdcover |-> albumData.cdcover, localImage |-> NoPath]
    IN  IF ~albumData.present THEN Outcome(C, "null", NoRef)
        ELSE IF originalId = Null THEN Outcome(C, "null", NoRef)
        ELSE IF Missing(albumData.title) THEN Outcome(C, "null", NoRef)
        ELSE IF found # {}
             THEN Outcome(IF albumData.cdcover # NoCover /\ NoImage(TheRow(found).localImage)
                          THEN [C EXCEPT !.Q = queueImageDownload(@, fs, albumData.cdcover,
                                                                  TheRow(found)._id)]
                          ELSE C,
                          "hit", TheRow(found)._id)
        ELSE IF DuplicateKey(C.albums, originalId) THEN Outcome(C, "threw", NoRef)
        ELSE Outcome([C EXCEPT !.albums = @ \cup {album}, !.nextId = @ + 1,
                               !.Q = IF albumData.cdcover # NoCover
                                     THEN queueImageDownload(@, fs, albumData.cdcover, album._id)
                                     ELSE @],
                     "new", album._id)

\* parser.js processArtist
processArtist(C, artistData) ==
    LET originalId == extractId(artistData._id)
        found == findByOriginalId(C.artists, originalId)
        artist == [_id |-> C.nextId, originalId |-> originalId,
                   artistdisplay |-> artistData.artistdisplay]
    IN  IF ~artistData.present THEN Outcome(C, "null", NoRef)
        ELSE IF originalId = Null THEN Outcome(C, "null", NoRef)
        ELSE IF found # {} THEN Outcome(C, "hit", TheRow(found)._id)
        ELSE IF Missing(artist.artistdisplay) \/ DuplicateKey(C.artists, originalId)
             THEN Outcome(C, "threw", NoRef)
        ELSE Outcome([C EXCEPT !.artists = @ \cup {artist}, !.nextId = @ + 1],
                     "new", artist._id)

\* parser.js processComposer
processComposer(C, composerData) ==
    LET originalId == extractId(composerData._id)
        found == findByOriginalId(C.composers, originalId)
        composer == [_id |-> C.nextId, originalId |-> originalId]
    IN  IF ~composerData.present THEN Outcome(C, "null", NoRef)
        ELSE IF originalId = Null THEN Outcome(C, "null", NoRef)
        ELSE IF found # {} THEN Outcome(C, "hit", TheRow(found)._id)
        ELSE IF DuplicateKey(C.composers, originalId) THEN Outcome(C, "threw", NoRef)
        ELSE Outcome([C EXCEPT !.composers = @ \cup {composer}, !.nextId = @ + 1],
                     "new", composer._id)

\* A resolver that, on a content match, gives the row the record's external
\* id when the record has one.
processTrackAdoptId(C, trackData, album, artist, composer) ==
    LET originalId == IF extractId(trackData._id) # Null THEN extractId(trackData._id)
                      ELSE extractId(trackData.id)
        byId == IF originalId # Null THEN {r \in C.tracks : r.originalId = originalId}
                ELSE {}
        byContent == Oldest({r \in C.tracks : /\ r.track_artist = trackData.track_artist
                                               /\ r.title = trackData.title
                                               /\ r.fn = trackData.fn})
        track == [_id |-> C.nextId, originalId |-> originalId,
                  track_artist |-> trackData.track_artist, title |-> trackData.title,
                  fn |-> trackData.fn, album |-> album, artist |-> artist,
                  composer |-> composer]
    IN  IF byId # {} THEN Outcome(C, "hit", TheRow(Oldest(byId))._id)
        ELSE IF byContent # {}
             THEN Outcome([C EXCEPT !.tracks =
                              {IF r \in byContent /\ originalId # Null
                               THEN [r EXCEPT !.originalId = originalId] ELSE r : r \in @}],
                          "hit", TheRow(byContent)._id)
        ELSE IF \/ Missing(track.track_artist) \/ Missing(track.title)
                \/ DuplicateKey(C.tracks, originalId)
             THEN Outcome(C, "threw", NoRef)
        ELSE Outcome([C EXCEPT !.tracks = @ \cup {track}, !.nextId = @ + 1],
                     "new", track._id)

\* A resolver that looks for the content before it looks for the external id.
processTrackContentFirst(C, trackData, album, artist, composer) ==
    LET originalId == IF extractId(trackData._id) # Null THEN extractId(trackData._id)
                      ELSE extractId(trackData.id)
        byId == IF originalId # Null THEN {r \in C.tracks : r.originalId = originalId}
                ELSE {}
        byContent == {r \in C.tracks : /\ r.track_artist = trackData.track_artist
                                        /\ r.title = trackData.title
                                        /\ r.fn = trackData.fn}
        track == [_id |-> C.nextId, originalId |-> originalId,
                  track_artist |-> trackData.track_artist, title |-> trackData.title,
                  fn |-> trackData.fn, album |-> album, artist |-> artist,
                  composer |-> composer]
    IN  IF byContent # {} THEN Outcome(C, "hit", TheRow(Oldest(byContent))._id)
        ELSE IF byId # {} THEN Outcome(C, "hit", TheRow(Oldest(byId))._id)
        ELSE IF \/ Missing(track.track_artist) \/ Missing(track.title)
                \/ DuplicateKey(C.tracks, originalId)
             THEN Outcome(C, "threw", NoRef)
        ELSE Outcome([C EXCEPT !.tracks = @ \cup {track}, !.nextId = @ + 1],
                     "new", track._id)

\* parser.js processTrack
processTrack(C, trackData, album, artist, composer) ==
    LET originalId == IF extractId(trackData._id) # Null THEN extractId(trackData._id)
                      ELSE extractId(trackData.id)
        existingTrack == IF originalId # Null THEN findByOriginalId(C.tracks, originalId)
                         ELSE {}
        existingByContent == findByContent(C.tracks, trackData)
        track == [_id |-> C.nextId, originalId |-> originalId,
                  track_artist |-> trackData.track_artist, title |-> trackData.title,
                  fn |-> trackData.fn, album |-> album, artist |-> artist,
                  composer |-> composer]
    IN  IF existingTrack # {} THEN Outcome(C, "hit", TheRow(existingTrack)._id)
        ELSE IF existingByContent # {} THEN Outcome(C, "hit", TheRow(existingByContent)._id)
        ELSE IF \/ Missing(track.track_artist) \/ Missing(track.title)
                \/ DuplicateKey(C.tracks, originalId)
             THEN Outcome(C, "threw", NoRef)
        ELSE Outcome([C EXCEPT !.tracks = @ \cup {track}, !.nextId = @ + 1],
                     "new", track._id)

\* parser.js processAd
processAd(C, adData) ==
    LET ad == [_id |-> C.nextId, ad_type |-> adData.ad_type]
    IN  IF ~AdTypeValid(ad.ad_type) THEN Outcome(C, "threw", NoRef)
        ELSE Outcome([C EXCEPT !.ads = @ \cup {ad}, !.nextId = @ + 1], "new", ad._id)

\* One iteration of the loop of parseAndStore (parser.js 397-421) on item:
\* the state it leaves and what each call did ("skip": the call was not made).
Skip == [st |-> "skip", ref |-> NoRef]
Did(o) == [st |-> o.st, ref |-> o.ref]
Iteration(C, fs, item) ==
    LET A  == processAlbum(C, fs, item.album)
        R  == processArtist(A.C, item.artist)
        K  == processComposer(R.C, item.composer)
        T  == processTrack(K.C, item, A.ref, R.ref, K.ref)
        AD == processAd(C, item)
        none == [item |-> item, threw |-> FALSE, C |-> C, album |-> Skip, artist |-> Skip,
                 composer |-> Skip, track |-> Skip, ad |-> Skip]
    IN  IF ~item.obj THEN [none EXCEPT !.threw = TRUE]
        ELSE IF isAd(item)
             THEN [none EXCEPT !.C = AD.C, !.ad = Did(AD), !.threw = (AD.st = "threw")]
        ELSE IF A.st = "threw"
             THEN [none EXCEPT !.C = A.C, !.album = Did(A), !.threw = TRUE]
        ELSE IF R.st = "threw"
             THEN [none EXCEPT !.C = R.C, !.album = Did(A), !.artist = Did(R), !.threw = TRUE]
        ELSE IF K.st = "threw"
             THEN [none EXCEPT !.C = K.C, !.album = Did(A), !.artist = Did(R),
                               !.composer = Did(K), !.threw = TRUE]
        ELSE [none EXCEPT !.C = T.C, !.album = Did(A), !.artist = Did(R),
                          !.composer = Did(K), !.track = Did(T),
                          !.threw = (T.st = "threw")]

\* Stats that count an ad as a new track.
CountAdAsTrack(stats, it) ==
    IF it.threw THEN stats
    ELSE IF it.ad.st = "new" \/ it.track.st = "new" THEN [stats EXCEPT !.new = @ + 1]
    ELSE [stats EXCEPT !.existing = @ + 1]

\* The stats after the iteration (parser.js 403, 416-420).
Count(stats, it) ==
    IF it.threw THEN stats
    ELSE IF it.ad.st = "new" THEN [stats EXCEPT !.ads = @ + 1]
    ELSE IF it.track.st = "new" THEN [stats EXCEPT !.new = @ + 1]
    ELSE [stats EXCEPT !.existing = @ + 1]

---------------------------------------------------------------------------
(* The feed records the model draws from.                                  *)
T1 == TrackRecord(IdStr("x1"), "A", "T", "f1", AlbumData(IdStr("a1"), "Alb", CoverA),
                  ArtistData(IdStr("r1"), "A"), ComposerData(IdOid("k1")))
\* no id, the content of T1
T2 == TrackRecord(NoId, "A", "T", "f1", NoAlbum, NoArtist, NoComposer)
\* the id of T1, other content; the album of T1 without its title
T3 == TrackRecord(IdOid("x1"), "A", "T", "f2", AlbumData(IdStr("a1"), Null, CoverA),
                  ArtistData(IdOid("r1"), "Other"), ComposerData(IdStr("k1")))
\* no id; an artist without artistdisplay
T4 == TrackRecord(NoId, "A", "T", "f2", AlbumData(IdOid("a2"), "Alb2", CoverB),
                  ArtistData(IdStr("r2"), Null), NoComposer)
\* no title; the album of T1 with another cover
T5 == TrackRecord(IdStr("x2"), "A", Null, "f1", AlbumData(IdStr("a1"), "Alb", CoverC),
                  NoArtist, NoComposer)
\* no id, no fn
T6 == TrackRecord(NoId, "B", "T", Null, NoAlbum, NoArtist, NoComposer)
\* no id; a new album without title; artist and composer without id
T7 == TrackRecord(NoId, "B", "T", "f1", AlbumData(IdStr("a3"), Null, CoverC),
                  ArtistData(NoId, "A"), ComposerData(NoId))
Items == {T1, T2, T3, T4, T5, T6, T7, AdRecord("paid"), AdRecord("bogus"), NullElement}

---------------------------------------------------------------------------
(* State after the modules are loaded, against an empty database.          *)
NoStats == [new |-> 0, existing |-> 0, ads |-> 0]
Counts  == [tracks |-> Cardinality(tracks), albums |-> Cardinality(albums),
            artists |-> Cardinality(artists), composers |-> Cardinality(composers),
            ads |-> Cardinality(ads)]
NoRun   == [status |-> "idle", n |-> 0, i |-> 0, stats |-> NoStats,
            before |-> [tracks |-> 0, albums |-> 0, artists |-> 0, composers |-> 0,
                        ads |-> 0]]
NoLast  == [item |-> NullElement, threw |-> FALSE, album |-> Skip, artist |-> Skip,
            composer |-> Skip, track |-> Skip, ad |-> Skip, asked |-> <<>>]

\* No archive was exported; no admin request was served.
NoArchive == [manifest |-> FALSE, tracks |-> {}, albums |-> {}, artists |-> {},
              composers |-> {}, ads |-> {}, imgs |-> {},
              source |-> [tracks |-> {}, albums |-> {}, artists |-> {},
                          composers |-> {}, ads |-> {}]]
NoReply == [op |-> "none", status |-> 0,
            deleted |-> [tracks |-> 0, albums |-> 0, artists |-> 0, ads |-> 0],
            upload |-> NoArchive, albumIds |-> {}, queued |-> 0, asked |-> <<>>]

InitState ==
    /\ albums = {} /\ artists = {} /\ composers = {} /\ tracks = {} /\ ads = {}
    /\ nextId = 1
    /\ files = {}
    /\ imageQueue = <<>>
    /\ isProcessingImages = FALSE
    /\ wpc = "idle"
    /\ cur = NoItem
    /\ run = NoRun
    /\ read = 0
    /\ last = NoLast
    /\ hist = <<>>
    /\ reqs = [c \in Covers |-> 0]
    /\ loops = 0
    /\ writes = [c \in Covers |-> 0]
    /\ payload = "none"
    /\ other = NoRun
    /\ archive = NoArchive
    /\ reply = NoReply
    /\ ops = 0

Init == InitState /\ data = <<>>

---------------------------------------------------------------------------
(* parseAndStore (parser.js 378-429).                                      *)

\* parser.js 381-395: the feed was fetched and is an array of n items.
Begin(n) ==
    /\ run.status # "running"
    /\ run' = [status |-> "running", n |-> n, i |-> 0, stats |-> NoStats,
               before |-> Counts]
    /\ UNCHANGED <<store, files, queue, data, read, last, writes>>
    /\ UNCHANGED <<other, archive, reply, ops>>

\* An iteration whose failure is caught: the loop goes on to the next item.
RecordSkipping(item) ==
    /\ run.status = "running"
    /\ run.i < run.n
    /\ read' = read + 1
    /\ LET it == Iteration(Context, files, item)
       IN  /\ albums' = it.C.albums
           /\ artists' = it.C.artists
           /\ composers' = it.C.composers
           /\ tracks' = it.C.tracks
           /\ ads' = it.C.ads
           /\ nextId' = it.C.nextId
           /\ SetQueue(it.C.Q)
           /\ last' = [item |-> it.item, threw |-> it.threw, album |-> it.album,
                       artist |-> it.artist, composer |-> it.composer,
                       track |-> it.track, ad |-> it.ad, asked |-> it.C.Q.asked]
           /\ run' = [run EXCEPT !.i = @ + 1, !.stats = Count(@, it)]
    /\ UNCHANGED <<files, data, hist, writes>>
    /\ UNCHANGED serving

\* parser.js 397-421: one iteration of the loop, on item.  A rejected save
\* or a TypeError leaves the loop: parseAndStore rejects.
Record(item) ==
    /\ run.status = "running"
    /\ run.i < run.n
    /\ read' = read + 1
    /\ LET it == Iteration(Context, files, item)
       IN  /\ albums' = it.C.albums
           /\ artists' = it.C.artists
           /\ composers' = it.C.composers
           /\ tracks' = it.C.tracks
           /\ ads' = it.C.ads
           /\ nextId' = it.C.nextId
           /\ SetQueue(it.C.Q)
           /\ last' = [item |-> it.item, threw |-> it.threw, album |-> it.album,
                       artist |-> it.artist, composer |-> it.composer,
                       track |-> it.track, ad |-> it.ad, asked |-> it.C.Q.asked]
           /\ run' = IF it.threw THEN [run EXCEPT !.status = "failed"]
                     ELSE [run EXCEPT !.i = @ + 1, !.stats = Count(@, it)]
    /\ UNCHANGED <<files, data, hist, writes>>
    /\ UNCHANGED serving

\* A return that waits until the worker has drained the pending list.
ReturnWhenDrained ==
    /\ run.status = "running"
    /\ run.i = run.n
    /\ wpc = "idle"
    /\ run' = [run EXCEPT !.status = "done"]
    /\ UNCHANGED <<store, files, queue, data, read, last, hist, writes>>
    /\ UNCHANGED serving

\* parser.js 423-428: the loop is over, the stats are returned.
Return ==
    /\ run.status = "running"
    /\ run.i = run.n
    /\ run' = [run EXCEPT !.status = "done"]
    /\ UNCHANGED <<store, files, queue, data, read, last, hist, writes>>
    /\ UNCHANGED serving

\* Runs over feeds that are drawn record by record as the loop reads them.
StartRun ==
    \E n \in 0..(MaxRecords - read) :
       Begin(n) /\ payload' = "array" /\ UNCHANGED hist
ProcessRecord == \E item \in Items : Record(item)

---------------------------------------------------------------------------
(* The worker: processImageQueue and downloadImageNow after a suspension.  *)

\* A response with data after which the album is updated and no file is
\* written.
DownloadedUnwritten ==
    /\ wpc = "request"
    /\ wpc' = IF cur.albumId # NoRef THEN "update" ELSE "delay"
    /\ UNCHANGED <<store, files, imageQueue, isProcessingImages, cur, reqs, loops, run,
                   data, read, last, hist, writes>>
    /\ UNCHANGED serving

\* parser.js 127-141: a response with data; the file is written.
Downloaded ==
    /\ wpc = "request"
    /\ files' = files \cup {cur.localPath}
    /\ writes' = [writes EXCEPT ![cur.cdcover] = @ + 1]
    /\ wpc' = IF cur.albumId # NoRef THEN "update" ELSE "delay"
    /\ UNCHANGED <<store, imageQueue, isProcessingImages, cur, reqs, loops, run, data,
                   read, last, hist>>
    /\ UNCHANGED serving

\* A failure after which the entry is put back on the pending list.
DownloadRetried ==
    /\ wpc = "request"
    /\ wpc' = "delay"
    /\ imageQueue' = Append(imageQueue, cur)
    /\ UNCHANGED <<store, files, isProcessingImages, cur, reqs, loops, run, data,
                   read, last, hist, writes>>
    /\ UNCHANGED serving

\* parser.js 128-131, 144-147: an empty response, a status outside 2xx, a
\* timeout or a network error.
DownloadFailed ==
    /\ wpc = "request"
    /\ wpc' = "delay"
    /\ UNCHANGED <<store, files, imageQueue, isProcessingImages, cur, reqs, loops, run,
                   data, read, last, hist, writes>>
    /\ UNCHANGED serving

\* parser.js 140: the update of the owning album has been applied.
AlbumUpdated ==
    /\ wpc = "update"
    /\ albums' = findByIdAndUpdate(albums, cur.albumId, cur.localPath)
    /\ wpc' = "delay"
    /\ UNCHANGED <<artists, composers, tracks, ads, nextId, files, imageQueue,
                   isProcessingImages, cur, reqs, loops, run, data, read, last, hist,
                   writes>>
    /\ UNCHANGED serving

\* parser.js 75-78: the pacing delay is over; next item, or back to idle.
DelayElapsed ==
    /\ wpc \in {"delay", "cached"}
    /\ SetQueue(DrainLoop(QueueState, files))
    /\ UNCHANGED <<store, files, run, data, read, last, hist, writes>>
    /\ UNCHANGED serving

Next ==
    \/ StartRun
    \/ ProcessRecord
    \/ Return
    \/ Downloaded
    \/ DownloadFailed
    \/ AlbumUpdated
    \/ DelayElapsed

Spec == Init /\ [][Next]_vars

---------------------------------------------------------------------------
(* The same feed ingested again and again: data is fixed at the start and  *)
(* every run reads it from its first record; hist keeps the earlier runs.  *)
RECURSIVE SeqsUpTo(_, _)
SeqsUpTo(S, n) ==
    IF n = 0 THEN {<<>>}
    ELSE LET shorter == SeqsUpTo(S, n - 1)
         IN  shorter \cup {Append(f, x) : f \in shorter, x \in S}

\* A track without external id, with an album and an artist that have one.
T8 == TrackRecord(NoId, "A", "T", "f1", AlbumData(IdStr("a1"), "Alb", NoCover),
                  ArtistData(IdStr("r1"), "A"), NoComposer)

\* Another track, with the album, the artist and the composer of T1.
T9 == TrackRecord(IdStr("x3"), "A", "T", "f2", AlbumData(IdStr("a1"), "Alb", CoverA),
                  ArtistData(IdStr("r1"), "A"), ComposerData(IdOid("k1")))
\* Another track without external id, with the album and the artist of T8.
T10 == TrackRecord(NoId, "B", "T", "f3", AlbumData(IdStr("a1"), "Alb", NoCover),
                   ArtistData(IdStr("r1"), "A"), NoComposer)

Feeds == SeqsUpTo(Items \cup {T8, T9, T10}, MaxFeedLen)

InitSame == InitState /\ data \in Feeds

Started == Len(hist) + (IF run.status = "idle" THEN 0 ELSE 1)

StartSame ==
    /\ Started < MaxRuns
    /\ Begin(Len(data))
    /\ payload' = "array"
    /\ hist' = IF run.status = "idle" THEN hist
               ELSE Append(hist, [status |-> run.status, stats |-> run.stats,
                                  before |-> run.before, after |-> Counts])

NextRecord == Record(data[run.i + 1])

NextSame ==
    \/ StartSame
    \/ NextRecord
    \/ Return
    \/ Downloaded
    \/ DownloadFailed
    \/ AlbumUpdated
    \/ DelayElapsed

SpecSame == InitSame /\ [][NextSame]_vars

---------------------------------------------------------------------------
(* The serving layer (server.js): POST /refresh with its fetch, DELETE     *)
(* /all, GET /export and POST /import, beside the runs and the worker.     *)
MaxOps == 3            \* /export, /import and DELETE /all requests served
MaxAdminRecords == 2   \* feed records read beside those requests

\* What axios.get(url) can give: an array, another JSON value, no answer,
\* or an answer with a status outside 2xx.
Payloads == {"array", "object", "unreachable", "status500"}

\* parser.js fetchFromUrl: axios.get resolves on a 2xx answer only.
fetchFromUrl(p) == p \in {"array", "object"}

\* A test that lets every payload through.
AnyPayload(p) == TRUE

\* Array.isArray(data), parser.js 383
isArray(p) == p = "array"

\* POST /refresh (server.js 243-268) whose parseAndStore gets past its fetch
\* and its array test.  A value that is no array has no length: the loop
\* reads nothing.
Refresh ==
    \E p \in Payloads :
       /\ fetchFromUrl(p) /\ isArray(p)
       /\ payload' = p
       /\ \E n \in 0..(IF p = "array" THEN MaxAdminRecords - read ELSE 0) : Begin(n)
       /\ UNCHANGED hist

\* POST /refresh whose parseAndStore throws at its fetch (parser.js 177-180)
\* or at its array test (383-385); the handler answers 500 with the message
\* (server.js 1317-1321).
RejectRun ==
    \E p \in Payloads :
       /\ ~(fetchFromUrl(p) /\ isArray(p))
       /\ run.status # "running"
       /\ payload' = p
       /\ run' = [NoRun EXCEPT !.status = IF fetchFromUrl(p) THEN "schema_error"
                                          ELSE "fetch_error"]
       /\ UNCHANGED <<store, files, queue, data, read, last, hist, writes, other,
                      archive, reply, ops>>

\* server.js getStats: four of the five collections.
getStats == [tracks |-> Cardinality(tracks), albums |-> Cardinality(albums),
             artists |-> Cardinality(artists), ads |-> Cardinality(ads)]

\* DELETE /all (server.js 1288-1311)
Erase ==
    /\ ops < MaxOps
    /\ reply' = [NoReply EXCEPT !.op = "erase", !.status = 200, !.deleted = getStats]
    /\ tracks' = {} /\ albums' = {} /\ artists' = {} /\ composers' = {} /\ ads' = {}
    /\ ops' = ops + 1
    /\ UNCHANGED <<nextId, files, queue, run, data, read, last, hist, writes, payload,
                   other, archive>>

\* A cast that keeps the _id of a document and loses its references.
castWithoutRefs(doc) ==
    [f \in DOMAIN doc |->
        IF f = "_id" THEN (IF doc[f].t = "string" THEN doc[f].v ELSE NoRef)
        ELSE IF f \in {"album", "artist", "composer"} THEN NoRef
        ELSE doc[f]]

\* JSON.stringify of an ObjectId or of null, and the cast of the schema's
\* ObjectId paths back from it.
JsonId(id) == [t |-> IF id = NoRef THEN "null" ELSE "string", v |-> id]
CastId(j) == IF j.t = "string" THEN j.v ELSE NoRef
IdPaths == {"_id", "album", "artist", "composer"}
toJSON(row) == [f \in DOMAIN row |-> IF f \in IdPaths THEN JsonId(row[f]) ELSE row[f]]
castDoc(doc) == [f \in DOMAIN doc |-> IF f \in IdPaths THEN CastId(doc[f]) ELSE doc[f]]

\* GET /export (server.js 1148-1196): database.json with the five
\* collections, and the files of IMGS_DIR.  source keeps the rows as they
\* were in the store.
Export ==
    /\ ops < MaxOps
    /\ archive' = [manifest |-> TRUE,
                   tracks |-> {toJSON(r) : r \in tracks},
                   albums |-> {toJSON(r) : r \in albums},
                   artists |-> {toJSON(r) : r \in artists},
                   composers |-> {toJSON(r) : r \in composers},
                   ads |-> {toJSON(r) : r \in ads},
                   imgs |-> files,
                   source |-> [tracks |-> tracks, albums |-> albums, artists |-> artists,
                               composers |-> composers, ads |-> ads]]
    /\ reply' = [NoReply EXCEPT !.op = "export", !.status = 200]
    /\ ops' = ops + 1
    /\ UNCHANGED <<store, files, queue, run, data, read, last, hist, writes, payload,
                   other>>

\* Rows added to an archive by hand: an album without title, and a track
\* without external id.
BadAlbum == toJSON([_id |-> 98, originalId |-> "zz", title |-> Null, cdcover |-> NoCover,
                    localImage |-> NoPath])
IdlessTrack == toJSON([_id |-> 99, originalId |-> Null, track_artist |-> "Z",
                       title |-> "Z", fn |-> Null, album |-> NoRef, artist |-> NoRef,
                       composer |-> NoRef])

\* The zips a client can post once it has an export: the export itself, the
\* export with rows added, and the export without its database.json.
Uploads(a) ==
    IF a.manifest
    THEN {a,
          [a EXCEPT !.albums = @ \cup {BadAlbum}, !.tracks = @ \cup {IdlessTrack}],
          [a EXCEPT !.manifest = FALSE]}
    ELSE {a}

\* zipEntries.find(e => e.entryName === 'database.json'), server.js 1210
hasManifest(up) == up.manifest

\* Schema validation of a document of the given collection.
Validates(kind, doc) ==
    /\ doc._id.t = "string"
    /\ kind = "albums" => ~Missing(doc.title)
    /\ kind = "artists" => ~Missing(doc.artistdisplay)
    /\ kind = "tracks" => ~Missing(doc.track_artist) /\ ~Missing(doc.title)
    /\ kind = "ads" => AdTypeValid(doc.ad_type)

\* No two rows with the same _id, or with the same originalId where the
\* collection has the unique index.
NoClash(kind, rows) ==
    \A x, y \in rows :
       x # y => /\ x._id # y._id
                /\ kind # "ads" => x.originalId # y.originalId

\* Model.insertMany(docs, { ordered: false }).catch(() => {}) into the emptied
\* collection (server.js 1254-1273): the documents that fail validation are
\* left out, every other document is tried, in no promised order, and those
\* the unique indexes reject are left out.  The sets of rows it can leave.
insertMany(kind, docs) ==
    LET valid == {castDoc(d) : d \in {x \in docs : Validates(kind, x)}}
    IN  {R \in SUBSET valid :
            /\ NoClash(kind, R)
            /\ \A d \in valid \ R : ~NoClash(kind, R \cup {d})}

\* POST /import (server.js 1198-1286) of the zip up
ImportOf(up) ==
    /\ ops < MaxOps
    /\ ops' = ops + 1
    /\ IF ~hasManifest(up)
       THEN /\ reply' = [NoReply EXCEPT !.op = "import", !.status = 400, !.upload = up]
            /\ UNCHANGED <<albums, artists, composers, tracks, ads, files>>
       ELSE /\ reply' = [NoReply EXCEPT !.op = "import", !.status = 200, !.upload = up]
            /\ files' = files \cup up.imgs
            /\ albums' \in insertMany("albums", up.albums)
            /\ artists' \in insertMany("artists", up.artists)
            /\ composers' \in insertMany("composers", up.composers)
            /\ tracks' \in insertMany("tracks", up.tracks)
            /\ ads' \in insertMany("ads", up.ads)
    /\ UNCHANGED <<nextId, queue, run, data, read, last, hist, writes, payload, other,
                   archive>>

Import == \E up \in Uploads(archive) : ImportOf(up)

\* The records of the feeds read beside the admin requests.
AdminItems == {T1, T2, T5, AdRecord("paid")}
AdminRecord == \E item \in AdminItems : Record(item)

NextAdmin ==
    \/ Refresh
    \/ RejectRun
    \/ AdminRecord
    \/ Return
    \/ Downloaded
    \/ DownloadFailed
    \/ AlbumUpdated
    \/ DelayElapsed
    \/ Erase
    \/ Export
    \/ Import

SpecAdmin == Init /\ [][NextAdmin]_vars

---------------------------------------------------------------------------
(* Two refresh requests.  The handler of POST /refresh (server.js 243-268) *)
(* calls parseAndStore whether or not an earlier call is still running;    *)
(* other is that second call, its loop interleaved with the first's         *)
(* between iterations.                                                      *)
\* The records a call has yet to read.
Remaining(r) == IF r.status = "running" THEN r.n - r.i ELSE 0

FirstRefresh ==
    \E n \in 0..(MaxRecords - read - Remaining(other)) :
       Begin(n) /\ payload' = "array" /\ UNCHANGED hist

SecondRefresh ==
    /\ run.status = "running"
    /\ other.status # "running"
    /\ \E n \in 0..(MaxRecords - read - Remaining(run)) :
          other' = [status |-> "running", n |-> n, i |-> 0, stats |-> NoStats,
                    before |-> Counts]
    /\ UNCHANGED <<store, files, queue, run, data, read, last, hist, writes, payload,
                   archive, reply, ops>>

\* parser.js 397-421, in the second call
RecordOther(item) ==
    /\ other.status = "running"
    /\ other.i < other.n
    /\ read' = read + 1
    /\ LET it == Iteration(Context, files, item)
       IN  /\ albums' = it.C.albums
           /\ artists' = it.C.artists
           /\ composers' = it.C.composers
           /\ tracks' = it.C.tracks
           /\ ads' = it.C.ads
           /\ nextId' = it.C.nextId
           /\ SetQueue(it.C.Q)
           /\ last' = [item |-> it.item, threw |-> it.threw, album |-> it.album,
                       artist |-> it.artist, composer |-> it.composer,
                       track |-> it.track, ad |-> it.ad, asked |-> it.C.Q.asked]
           /\ other' = IF it.threw THEN [other EXCEPT !.status = "failed"]
                     ELSE [other EXCEPT !.i = @ + 1, !.stats = Count(@, it)]
    /\ UNCHANGED <<files, data, hist, writes>>
    /\ UNCHANGED <<run, payload, archive, reply, ops>>

\* parser.js 423-428, in the second call
ReturnOther ==
    /\ other.status = "running"
    /\ other.i = other.n
    /\ other' = [other EXCEPT !.status = "done"]
    /\ UNCHANGED <<store, files, queue, data, read, last, hist, writes>>
    /\ UNCHANGED <<run, payload, archive, reply, ops>>

\* The records of the feeds of the two calls.
OverlapItems == {T1, T2, AdRecord("paid")}
FirstRecord == \E item \in OverlapItems : Record(item)
OtherRecord == \E item \in OverlapItems : RecordOther(item)

NextOverlap ==
    \/ FirstRefresh
    \/ FirstRecord
    \/ Return
    \/ SecondRefresh
    \/ OtherRecord
    \/ ReturnOther
    \/ Downloaded
    \/ DownloadFailed
    \/ AlbumUpdated
    \/ DelayElapsed

SpecOverlap == Init /\ [][NextOverlap]_vars

---------------------------------------------------------------------------
(* The repair path: POST /images/download (server.js 152-187), beside runs *)
(* and the import of a backup whose albums were stored without the field   *)
(* localImage.                                                             *)
MaxRepairOps == 2      \* /import and /images/download requests served

OldAlbum1 == toJSON([_id |-> 97, originalId |-> "a8", title |-> "Old8", cdcover |-> CoverC,
                     localImage |-> Absent])
OldAlbum2 == toJSON([_id |-> 96, originalId |-> "a9", title |-> "Old9", cdcover |-> CoverB,
                     localImage |-> Absent])
OldArchive == [NoArchive EXCEPT !.manifest = TRUE, !.albums = {OldAlbum1, OldAlbum2}]

ImportOld == ops < MaxRepairOps /\ ImportOf(OldArchive)

\* Album.find({ _id: { $in: albumIds }, cdcover: { $exists: true, $ne: null },
\*              localImage: { $exists: false } }), server.js 166-170
findNeedingImages(rows, albumIds) ==
    {a \in rows : /\ a._id \in albumIds
                   /\ a.cdcover # NoCover
                   /\ a.localImage = Absent}

\* albums.forEach(album => queueImageDownload(album.cdcover, album._id)),
\* server.js 173-177, in the order of the rows
RECURSIVE queueEach(_, _, _)
queueEach(Q, fs, rows) ==
    IF rows = {} THEN Q
    ELSE LET a == TheRow(Oldest(rows))
         IN  queueEach(queueImageDownload(Q, fs, a.cdcover, a._id), fs, rows \ {a})

\* POST /images/download with the body { albumIds }
RepairDownload ==
    /\ ops < MaxRepairOps
    /\ ops' = ops + 1
    /\ \E albumIds \in SUBSET {a._id : a \in albums} :
          LET found == findNeedingImages(albums, albumIds)
              Q == queueEach(QueueState, files, found)
          IN  /\ SetQueue(Q)
              /\ reply' = [NoReply EXCEPT !.op = "repair", !.status = 200,
                                           !.albumIds = albumIds,
                                           !.queued = Cardinality(found),
                                           !.asked = Q.asked]
    /\ UNCHANGED <<store, files, run, data, read, last, hist, writes, payload, other,
                   archive>>

\* POST /images/download with a body that has no albumIds array: 400
RepairRejected ==
    /\ ops < MaxRepairOps
    /\ ops' = ops + 1
    /\ reply' = [NoReply EXCEPT !.op = "repair", !.status = 400]
    /\ UNCHANGED <<store, files, queue, run, data, read, last, hist, writes, payload,
                   other, archive>>

RepairItems == {T1, T8}
RepairRecord == \E item \in RepairItems : Record(item)

NextRepair ==
    \/ Refresh
    \/ RepairRecord
    \/ Return
    \/ Downloaded
    \/ DownloadFailed
    \/ AlbumUpdated
    \/ DelayElapsed
    \/ ImportOld
    \/ RepairDownload
    \/ RepairRejected

SpecRepair == Init /\ [][NextRepair]_vars

---------------------------------------------------------------------------
(* Runs over records that bring identities and sentinels against each      *)
(* other: ids with other content, content with other ids, ads with         *)
(* sub-objects, tracks with one of the two sentinel values.                *)
AdWithSubObjects ==
    [AdRecord("paid") EXCEPT !._id = IdStr("x7"), !.fn = "f7",
                             !.album = AlbumData(IdStr("a7"), "Alb7", CoverC),
                             !.artist = ArtistData(IdStr("r7"), "R7"),
                             !.composer = ComposerData(IdStr("k7"))]
RunspotTrack == TrackRecord(IdStr("x5"), "runspot", "T", "f5", NoAlbum, NoArtist,
                            NoComposer)
\* Its album is another album with the cover of the album of T1.
SweeperTrack == TrackRecord(IdStr("x6"), "A", "sweeper", "f6",
                            AlbumData(IdStr("a5"), "Alb5", CoverA), NoArtist, NoComposer)

IdentityItems == {T1, T2, T3, T8, T9, AdWithSubObjects, RunspotTrack, SweeperTrack}
IdentityRecord == \E item \in IdentityItems : Record(item)

NextIdentity ==
    \/ StartRun
    \/ IdentityRecord
    \/ Return
    \/ Downloaded
    \/ DownloadFailed
    \/ AlbumUpdated
    \/ DelayElapsed

SpecIdentity == Init /\ [][NextIdentity]_vars

---------------------------------------------------------------------------
(* Runs against a store that can stop answering.  Every store operation of *)
(* the loop is awaited with no handler around it (parser.js 397-421): when *)
(* the store rejects one, the iteration ends there with what the earlier   *)
(* stages of the record have saved.                                        *)
Stages == {"album", "artist", "composer", "track", "ad"}
Threw == [st |-> "threw", ref |-> NoRef]

\* The stage of item makes a call to the store: it does not return null
\* before its findOne (parser.js 194-203, 248-251, 277-280), or it is the
\* Track's or the Ad's, which always reach the store.
Touches(item, stage) ==
    IF isAd(item) THEN stage = "ad"
    ELSE CASE stage = "album" ->
                 /\ item.album.present /\ extractId(item.album._id) # Null
                 /\ ~Missing(item.album.title)
           [] stage = "artist" ->
                 item.artist.present /\ extractId(item.artist._id) # Null
           [] stage = "composer" ->
                 item.composer.present /\ extractId(item.composer._id) # Null
           [] stage = "track" -> TRUE
           [] OTHER -> FALSE

\* The iteration on item when the store rejects the first call of stage.
Interrupted(C, fs, item, stage) ==
    LET A  == processAlbum(C, fs, item.album)
        R  == processArtist(A.C, item.artist)
        K  == processComposer(R.C, item.composer)
        none == [item |-> item, threw |-> TRUE, C |-> C, album |-> Skip, artist |-> Skip,
                 composer |-> Skip, track |-> Skip, ad |-> Skip]
    IN  CASE stage = "ad" -> [none EXCEPT !.ad = Threw]
          [] stage = "album" -> [none EXCEPT !.album = Threw]
          [] stage = "artist" ->
                [none EXCEPT !.C = A.C, !.album = Did(A), !.artist = Threw]
          [] stage = "composer" ->
                [none EXCEPT !.C = R.C, !.album = Did(A), !.artist = Did(R),
                             !.composer = Threw]
          [] OTHER ->
                [none EXCEPT !.C = K.C, !.album = Did(A), !.artist = Did(R),
                             !.composer = Did(K), !.track = Threw]

\* The stages of item before stage end without a rejected save.
ReachesStage(C, fs, item, stage) ==
    LET A  == processAlbum(C, fs, item.album)
        R  == processArtist(A.C, item.artist)
        K  == processComposer(R.C, item.composer)
    IN  /\ stage \in {"artist", "composer", "track"} => A.st # "threw"
        /\ stage \in {"composer", "track"} => R.st # "threw"
        /\ stage = "track" => K.st # "threw"

\* parser.js 397-421: one iteration of the loop, on item, in which the store
\* rejects the first call of stage.
Outage(item, stage) ==
    /\ run.status = "running"
    /\ run.i < run.n
    /\ item.obj /\ Touches(item, stage) /\ ReachesStage(Context, files, item, stage)
    /\ read' = read + 1
    /\ LET it == Interrupted(Context, files, item, stage)
       IN  /\ albums' = it.C.albums
           /\ artists' = it.C.artists
           /\ composers' = it.C.composers
           /\ tracks' = it.C.tracks
           /\ ads' = it.C.ads
           /\ nextId' = it.C.nextId
           /\ SetQueue(it.C.Q)
           /\ last' = [item |-> it.item, threw |-> it.threw, album |-> it.album,
                       artist |-> it.artist, composer |-> it.composer,
                       track |-> it.track, ad |-> it.ad, asked |-> it.C.Q.asked]
           /\ run' = [run EXCEPT !.status = "failed"]
    /\ UNCHANGED <<files, data, hist, writes>>
    /\ UNCHANGED serving

FailureItems == {T1, T2, T10, AdRecord("paid")}
FailureRecord == \E item \in FailureItems : Record(item)
StoreOutage == \E item \in FailureItems, stage \in Stages : Outage(item, stage)

NextFailure ==
    \/ StartRun
    \/ FailureRecord
    \/ StoreOutage
    \/ Return
    \/ Downloaded
    \/ DownloadFailed
    \/ AlbumUpdated
    \/ DelayElapsed

SpecFailure == Init /\ [][NextFailure]_vars

---------------------------------------------------------------------------
(* Two parseAndStore calls whose store operations interleave.  Each await  *)
(* of a findOne or of a save (parser.js 205, 234, 254, 283, 311, 319, 352, *)
(* 371) is a point at which the other call, or another request, can run.   *)
(* A call carries the array it fetched (feed), its place in the record     *)
(* (pc), the item it is on and the rows its earlier stages resolved.        *)
NewCall(feed) ==
    [status |-> "running", n |-> Len(feed), i |-> 0, stats |-> NoStats,
     before |-> Counts, feed |-> feed, pc |-> "next", item |-> NullElement,
     album |-> NoRef, artist |-> NoRef, composer |-> NoRef]

\* The external id processTrack uses (parser.js 307).
TrackId(item) ==
    IF extractId(item._id) # Null THEN extractId(item._id) ELSE extractId(item.id)

\* What a step of a call leaves: the call and the store and queue.
Left(c, C) == [c |-> c, C |-> C]

\* parser.js 416-420: the record is counted and the loop goes to the next.
Counted(c, field) ==
    [c EXCEPT !.i = @ + 1, !.stats[field] = @ + 1, !.pc = "next"]

\* parser.js 397-400 and 423-428: the next item of the loop, or the return.
NextItem(c, C) ==
    IF c.i = c.n THEN Left([c EXCEPT !.status = "done"], C)
    ELSE LET item == c.feed[c.i + 1]
         IN  Left([c EXCEPT !.item = item, !.album = NoRef, !.artist = NoRef,
                            !.composer = NoRef,
                            !.pc = IF isAd(item) THEN "ad.save" ELSE "album.find"], C)

\* processAlbum up to the answer of findOne (parser.js 193-213)
AlbumFind(c, C, fs) ==
    LET albumData == c.item.album
        originalId == extractId(albumData._id)
        found == findByOriginalId(C.albums, originalId)
    IN  IF ~albumData.present \/ originalId = Null \/ Missing(albumData.title)
        THEN Left([c EXCEPT !.pc = "artist.find"], C)
        ELSE IF found # {}
        THEN Left([c EXCEPT !.album = TheRow(found)._id, !.pc = "artist.find"],
                  IF albumData.cdcover # NoCover /\ NoImage(TheRow(found).localImage)
                  THEN [C EXCEPT !.Q = queueImageDownload(@, fs, albumData.cdcover,
                                                          TheRow(found)._id)]
                  ELSE C)
        ELSE Left([c EXCEPT !.pc = "album.save"], C)

\* processAlbum from album.save() on (parser.js 216-241)
AlbumSave(c, C, fs) ==
    LET albumData == c.item.album
        originalId == extractId(albumData._id)
        album == [_id |-> C.nextId, originalId |-> originalId, title |-> albumData.title,
                  cdcover |-> albumData.cdcover, localImage |-> NoPath]
    IN  IF DuplicateKey(C.albums, originalId) THEN Left([c EXCEPT !.status = "failed"], C)
        ELSE Left([c EXCEPT !.album = album._id, !.pc = "artist.find"],
                  [C EXCEPT !.albums = @ \cup {album}, !.nextId = @ + 1,
                            !.Q = IF albumData.cdcover # NoCover
                                  THEN queueImageDownload(@, fs, albumData.cdcover, album._id)
                                  ELSE @])

\* processArtist up to the answer of findOne (parser.js 247-255)
ArtistFind(c, C) ==
    LET originalId == extractId(c.item.artist._id)
        found == findByOriginalId(C.artists, originalId)
    IN  IF ~c.item.artist.present \/ originalId = Null
        THEN Left([c EXCEPT !.pc = "composer.find"], C)
        ELSE IF found # {}
        THEN Left([c EXCEPT !.artist = TheRow(found)._id, !.pc = "composer.find"], C)
        ELSE Left([c EXCEPT !.pc = "artist.save"], C)

\* processArtist from artist.save() on (parser.js 257-271)
ArtistSave(c, C) ==
    LET originalId == extractId(c.item.artist._id)
        artist == [_id |-> C.nextId, originalId |-> originalId,
                   artistdisplay |-> c.item.artist.artistdisplay]
    IN  IF Missing(artist.artistdisplay) \/ DuplicateKey(C.artists, originalId)
        THEN Left([c EXCEPT !.status = "failed"], C)
        ELSE Left([c EXCEPT !.artist = artist._id, !.pc = "composer.find"],
                  [C EXCEPT !.artists = @ \cup {artist}, !.nextId = @ + 1])

\* processComposer up to the answer of findOne (parser.js 276-284)
ComposerFind(c, C) ==
    LET originalId == extractId(c.item.composer._id)
        found == findByOriginalId(C.composers, originalId)
    IN  IF ~c.item.composer.present \/ originalId = Null
        THEN Left([c EXCEPT !.pc = "track.findId"], C)
        ELSE IF found # {}
        THEN Left([c EXCEPT !.composer = TheRow(found)._id, !.pc = "track.findId"], C)
        ELSE Left([c EXCEPT !.pc = "composer.save"], C)

\* processComposer from composer.save() on (parser.js 286-301)
ComposerSave(c, C) ==
    LET originalId == extractId(c.item.composer._id)
        composer == [_id |-> C.nextId, originalId |-> originalId]
    IN  IF DuplicateKey(C.composers, originalId)
        THEN Left([c EXCEPT !.status = "failed"], C)
        ELSE Left([c EXCEPT !.composer = composer._id, !.pc = "track.findId"],
                  [C EXCEPT !.composers = @ \cup {composer}, !.nextId = @ + 1])

\* processTrack up to the answer of Track.findOne({ originalId })
\* (parser.js 306-316)
TrackFindId(c, C) ==
    LET originalId == TrackId(c.item)
    IN  IF originalId # Null /\ findByOriginalId(C.tracks, originalId) # {}
        THEN Left(Counted(c, "existing"), C)
        ELSE Left([c EXCEPT !.pc = "track.findContent"], C)

\* processTrack up to the answer of the lookup by content (parser.js 318-328)
TrackFindContent(c, C) ==
    IF findByContent(C.tracks, c.item) # {} THEN Left(Counted(c, "existing"), C)
    ELSE Left([c EXCEPT !.pc = "track.save"], C)

\* processTrack from track.save() on (parser.js 330-355)
TrackSave(c, C) ==
    LET originalId == TrackId(c.item)
        track == [_id |-> C.nextId, originalId |-> originalId,
                  track_artist |-> c.item.track_artist, title |-> c.item.title,
                  fn |-> c.item.fn, album |-> c.album, artist |-> c.artist,
                  composer |-> c.composer]
    IN  IF \/ Missing(track.track_artist) \/ Missing(track.title)
           \/ DuplicateKey(C.tracks, originalId)
        THEN Left([c EXCEPT !.status = "failed"], C)
        ELSE Left(Counted(c, "new"),
                  [C EXCEPT !.tracks = @ \cup {track}, !.nextId = @ + 1])

\* processAd (parser.js 360-373)
AdSave(c, C) ==
    LET o == processAd(C, c.item)
    IN  IF o.st = "threw" THEN Left([c EXCEPT !.status = "failed"], C)
        ELSE Left(Counted(c, "ads"), o.C)

\* The call c up to its next await on the store.
Advance(c, C, fs) ==
    CASE c.pc = "next" -> NextItem(c, C)
      [] c.pc = "album.find" -> AlbumFind(c, C, fs)
      [] c.pc = "album.save" -> AlbumSave(c, C, fs)
      [] c.pc = "artist.find" -> ArtistFind(c, C)
      [] c.pc = "artist.save" -> ArtistSave(c, C)
      [] c.pc = "composer.find" -> ComposerFind(c, C)
      [] c.pc = "composer.save" -> ComposerSave(c, C)
      [] c.pc = "track.findId" -> TrackFindId(c, C)
      [] c.pc = "track.findContent" -> TrackFindContent(c, C)
      [] c.pc = "track.save" -> TrackSave(c, C)
      [] OTHER -> AdSave(c, C)

\* The store and the queue as the step of a call leaves them.
SetStore(C) ==
    /\ albums' = C.albums /\ artists' = C.artists /\ composers' = C.composers
    /\ tracks' = C.tracks /\ ads' = C.ads /\ nextId' = C.nextId
    /\ SetQueue(C.Q)

\* The step reads an item of the feed.
Reads(c) == c.pc = "next" /\ c.i < c.n

RaceItems == {T1, T2, AdRecord("paid")}
RaceFeeds == SeqsUpTo(RaceItems, MaxFeedLen)

InitRace == InitState /\ data \in RaceFeeds

\* The records of feed in another order.
Reversed(feed) == [k \in 1..Len(feed) |-> feed[Len(feed) + 1 - k]]

\* POST /refresh (server.js 243-268): the call fetched the array data.
RaceFirst ==
    /\ run.status = "idle"
    /\ run' = NewCall(data)
    /\ payload' = "array"
    /\ UNCHANGED <<store, files, queue, data, read, last, hist, writes, other, archive,
                   reply, ops>>

\* A second POST /refresh while the first call runs; its fetch gave the
\* same records, in the same or in another order.
RaceSecond ==
    /\ run.status = "running"
    /\ other.status = "idle"
    /\ \E feed \in {data, Reversed(data)} : other' = NewCall(feed)
    /\ UNCHANGED <<store, files, queue, run, data, read, last, hist, writes, payload,
                   archive, reply, ops>>

\* A step of the first call, and of the second.
FirstStep ==
    /\ run.status = "running"
    /\ LET x == Advance(run, Context, files)
       IN  run' = x.c /\ SetStore(x.C)
    /\ read' = IF Reads(run) THEN read + 1 ELSE read
    /\ UNCHANGED <<files, data, last, hist, writes, payload, other, archive, reply, ops>>

SecondStep ==
    /\ other.status = "running"
    /\ LET x == Advance(other, Context, files)
       IN  other' = x.c /\ SetStore(x.C)
    /\ read' = IF Reads(other) THEN read + 1 ELSE read
    /\ UNCHANGED <<files, data, last, hist, writes, payload, run, archive, reply, ops>>

NextRace ==
    \/ RaceFirst
    \/ FirstStep
    \/ RaceSecond
    \/ SecondStep
    \/ Downloaded
    \/ DownloadFailed
    \/ AlbumUpdated
    \/ DelayElapsed

SpecRace == InitRace /\ [][NextRace]_vars

---------------------------------------------------------------------------
(* DELETE /all beside a parseAndStore call: the handler (server.js         *)
(* 1288-1311) deletes whether or not a call is between two of its store    *)
(* operations.                                                             *)
NextErase ==
    \/ RaceFirst
    \/ FirstStep
    \/ Erase
    \/ Downloaded
    \/ DownloadFailed
    \/ AlbumUpdated
    \/ DelayElapsed

SpecErase == InitRace /\ [][NextErase]_vars

---------------------------------------------------------------------------
(* Properties.  They read `last`, the record of the most recent iteration  *)
(* of the loop: its item and, per call, how it ended and the row it gave.  *)

\* No two rows with the same known external id.
UniqueOriginalId(rows) ==
    \A r1 \in rows, r2 \in rows :
        (r1.originalId = r2.originalId /\ r1.originalId # Null) => r1 = r2

\* The call that resolved external id x (did) gave the row that carries x.
ResolvesTo(rows, x, did) ==
    (did.st # "skip" /\ x # Null) => \A r \in rows : r.originalId = x => did.ref = r._id

IsTrackRecord(item) == item.obj /\ ~isAd(item)

SameContent(r, item) ==
    r.track_artist = item.track_artist /\ r.title = item.title /\ r.fn = item.fn

\* The Artist sub-object is absent or carries its display name.
ArtistStorable(item) == ~item.artist.present \/ ~Missing(item.artist.artistdisplay)

C4_NoRecordAbortsRun ==
    /\ run.status # "failed"
    /\ last.threw => run.status \in {"running", "done"}

\* A sub-object that is missing or malformed: absent, without external id,
\* or without its mandatory field.
Unusable(d, mandatoryMissing) ==
    ~d.present \/ extractId(d._id) = Null \/ mandatoryMissing

\* C5: a missing or malformed Album, Artist or Composer sub-object gives a
\* null reference for that kind, the Track row is still handled and the run
\* goes on without error.
C5_MalformedSubObjectsTolerated ==
    IsTrackRecord(last.item) =>
       /\ Unusable(last.item.album, Missing(last.item.album.title))
             => last.album.st = "null"
       /\ Unusable(last.item.artist, Missing(last.item.artist.artistdisplay))
             => last.artist.st = "null"
       /\ Unusable(last.item.composer, FALSE) => last.composer.st = "null"
       /\ last.track.st # "skip"

\* The rest of the record is well formed: the Track's own mandatory fields,
\* and an Artist that is absent or has its display name.
RestWellFormed(item) ==
    /\ ~Missing(item.track_artist) /\ ~Missing(item.title)
    /\ ArtistStorable(item)

\* C6: a Track record whose Album sub-object has an external id and no title
\* creates no Album row; its Track row is created (or found) with a null
\* album reference, and the run goes on to the next record.
C6_AlbumWithoutTitle ==
    ( /\ IsTrackRecord(last.item) /\ RestWellFormed(last.item)
      /\ last.item.album.present
      /\ extractId(last.item.album._id) # Null
      /\ Missing(last.item.album.title) ) =>
       /\ last.album.st = "null"
       /\ ~last.threw
       /\ last.track.st \in {"new", "hit"}
       /\ last.track.st = "new" =>
             \A r \in tracks : r._id = last.track.ref => r.album = NoRef

---------------------------------------------------------------------------
(* Runs over a feed fixed in advance.                                      *)

\* A feed of unique, well-formed track records: every record is a track
\* with its mandatory fields, and no two records share an external id or an
\* (artist, title, filename) triple.
UniqueTrackFeed(feed) ==
    /\ \A k \in 1..Len(feed) : IsTrackRecord(feed[k]) /\ RestWellFormed(feed[k])
    /\ \A j, k \in 1..Len(feed) :
          j # k => /\ ~SameContent(feed[j], feed[k])
                   /\ TrackId(feed[j]) = Null \/ TrackId(feed[j]) # TrackId(feed[k])

\* C2: a feed of N unique track records ingested into an empty store gives
\* N new and 0 existing on the first run; every later run over the same feed
\* gives 0 new and N existing and creates no Track, Album, Artist or
\* Composer row.
C2_IngestIdempotent ==
    UniqueTrackFeed(data) =>
       /\ run.status # "failed"
       /\ (Len(hist) = 0 /\ run.status = "done")
             => run.stats.new = Len(data) /\ run.stats.existing = 0
       /\ (Len(hist) > 0 /\ run.status = "done")
             => /\ run.stats.new = 0 /\ run.stats.existing = Len(data)
                /\ Counts.tracks = run.before.tracks
                /\ Counts.albums = run.before.albums
                /\ Counts.artists = run.before.artists
                /\ Counts.composers = run.before.composers

\* The ad-shaped records of a feed.
AdShaped(feed) == {k \in 1..Len(feed) : feed[k].obj /\ isAd(feed[k])}

\* C7: every run over a feed with M ad-shaped records ends with M new Ad
\* rows and adsProcessed = M; ads are never matched against stored rows, so
\* two runs over the same feed leave 2M rows.
C7_AdPassthrough ==
    LET M == Cardinality(AdShaped(data))
    IN  /\ run.status # "failed"
        /\ run.status = "done"
              => /\ run.stats.ads = M
                 /\ Counts.ads = run.before.ads + M
                 /\ Counts.ads = (Len(hist) + 1) * M

---------------------------------------------------------------------------
(* The fetch queue.                                                        *)

Entries(q, cdcover) == {k \in 1..Len(q) : q[k].cdcover = cdcover}

\* What a pending entry for cdcover does in one step: it stays the only
\* entry for cdcover, with no request for it; or it is popped, and if it
\* was enqueued again while it was pending, one request for it goes out.
PendingStep(cdcover) ==
    Entries(imageQueue, cdcover) # {} =>
       \/ /\ Cardinality(Entries(imageQueue', cdcover)) = 1
          /\ reqs'[cdcover] = reqs[cdcover]
       \/ /\ Entries(imageQueue', cdcover) = {}
          /\ cur'.cdcover = cdcover
          /\ cur'.dup => reqs'[cdcover] = reqs[cdcover] + 1

\* C8: an asset enqueued again while its entry is pending keeps one entry,
\* and that entry gives exactly one download attempt for the asset.
C8_ExactlyOneAttempt ==
    [][\A c \in Covers : PendingStep(c)]_vars

\* An earlier call for cdcover is outstanding: its entry is pending, or the
\* worker has popped it and its download is in flight.
Outstanding(cdcover) ==
    \/ Entries(imageQueue, cdcover) # {}
    \/ cur.cdcover = cdcover /\ wpc = "request"

\* This step is an iteration of the loop that called queueImageDownload for
\* cdcover: its album stage created a row, or found one without localImage.
Called(cdcover) ==
    /\ read' = read + 1
    /\ last'.item.album.cdcover = cdcover
    /\ \/ last'.album.st = "new"
       \/ /\ last'.album.st = "hit"
          /\ \E a \in albums : a._id = last'.album.ref /\ a.localImage = NoPath

\* C9: in every state of the worker, a call of queueImageDownload for a
\* cdcover that an earlier call left outstanding, pending or in flight,
\* changes neither the number of pending entries nor the number of download
\* attempts: twice is the same as once.
C9_EnqueueIdempotent ==
    [][\A c \in Covers :
          (Outstanding(c) /\ Called(c))
             => Len(imageQueue') = Len(imageQueue) /\ reqs' = reqs]_vars

\* C10: an asset is written to the cache at most once, no file of the cache
\* is written twice, and no download is out for a file that the cache holds.
C10_FetchedAtMostOnce ==
    /\ \A c \in Covers : writes[c] <= 1
    /\ \A c, d \in Covers :
          (c # d /\ getLocalPath(c) = getLocalPath(d)) => writes[c] + writes[d] <= 1
    /\ wpc = "request" => ~existsSync(files, cur.localPath)

\* An entry was popped after its file had been written, and was skipped.
C10_Witness ==
    /\ wpc = "cached"
    /\ \E c \in Covers : writes[c] = 1 /\ getLocalPath(c) = cur.localPath

---------------------------------------------------------------------------
(* The cached-image path of an Album.                                      *)

\* The row with this _id, as a set of at most one.
RowOf(rows, id) == {r \in rows : r._id = id}

---------------------------------------------------------------------------
(* Failed downloads and the states of the worker.                          *)

\* The step in which a download ends without a file: the worker leaves its
\* request for the pacing delay and nothing was written.
FailureStep == wpc = "request" /\ wpc' = "delay" /\ writes' = writes

\* C12: a failed download is discarded: the entry is not put back on the
\* pending list and no new request goes out for it, no file is written, no
\* Album is modified, the run that enqueued it is not disturbed, and after
\* the pacing delay the worker takes the next pending entry, or goes idle
\* when there is none.
C12_FailedDownloadDiscarded ==
    [][/\ FailureStep =>
             /\ imageQueue' = imageQueue /\ reqs' = reqs
             /\ files' = files /\ albums' = albums
             /\ run' = run /\ isProcessingImages'
       /\ (wpc = "delay" /\ wpc' # "delay") =>
             IF imageQueue # <<>>
             THEN /\ cur' = Head(imageQueue) /\ imageQueue' = Tail(imageQueue)
                  /\ wpc' \in {"request", "cached"}
             ELSE wpc' = "idle" /\ ~isProcessingImages']_vars

\* A download has failed (a request went out, nothing was written, the file
\* is not there) and another entry is pending behind it.
C12_Witness ==
    /\ wpc = "delay"
    /\ reqs[cur.cdcover] = 1 /\ writes[cur.cdcover] = 0
    /\ ~existsSync(files, cur.localPath)
    /\ imageQueue # <<>>

\* C13: the worker is Idle or Draining; whenever an entry is pending the
\* worker is Draining, it is Idle only with an empty pending list and no
\* entry in hand, and getImageQueueStatus reports the length of the pending
\* list and the draining flag as they are.
C13_IdleDrainingIdle ==
    /\ getImageQueueStatus.pending > 0 => getImageQueueStatus.isProcessing
    /\ (wpc = "idle") <=> ~isProcessingImages
    /\ ~isProcessingImages => imageQueue = <<>> /\ cur = NoItem
    /\ isProcessingImages => cur # NoItem
    /\ getImageQueueStatus.pending = Len(imageQueue)
    /\ getImageQueueStatus.isProcessing = isProcessingImages

\* An entry is pending while the worker drains, and status() says so.
C13_Witness ==
    /\ getImageQueueStatus.pending = 1 /\ getImageQueueStatus.isProcessing
    /\ wpc = "request"

---------------------------------------------------------------------------
(* The serving layer.                                                      *)

\* C14: a refresh whose feed cannot be fetched, answers outside 2xx or is
\* not an array ends with an error and leaves the store, the asset cache
\* and the fetch queue as they were; so does an import whose zip has no
\* database.json, which is answered 400.
C14_RunLevelInputAborts ==
    [][/\ (payload' # "array" /\ run' # run)
             => /\ run'.status \in {"fetch_error", "schema_error"}
                /\ UNCHANGED <<store, files, queue>>
       /\ (ops' # ops /\ reply'.op = "import" /\ ~hasManifest(reply'.upload))
             => /\ reply'.status = 400
                /\ UNCHANGED <<store, files, queue>>]_vars

\* A refresh was rejected for its payload and an import for its missing
\* manifest, over a store that holds rows.
C14_Witness ==
    /\ payload = "object" /\ run.status = "schema_error"
    /\ reply.op = "import" /\ reply.status = 400
    /\ tracks # {}

---------------------------------------------------------------------------
(* A feed of one track and one ad, ingested twice.                         *)

\* C15: the feed of the track T8 (album a1 'Alb', artist r1 'A') and one
\* paid ad, ingested into the empty store, leaves 1 Album, 1 Artist, 1 Track
\* and 1 Ad; ingested again it gives tracksNew = 0 and tracksExisting = 1,
\* the ads processed by the two runs add up to 2, and there is still 1
\* Album and 1 Artist.
C15_EndToEnd ==
    data = <<T8, AdRecord("paid")>> =>
       /\ run.status # "failed"
       /\ (Len(hist) = 0 /\ run.status = "done")
             => /\ Counts = [tracks |-> 1, albums |-> 1, artists |-> 1,
                             composers |-> 0, ads |-> 1]
                /\ run.stats = [new |-> 1, existing |-> 0, ads |-> 1]
       /\ (Len(hist) = 1 /\ run.status = "done")
             => /\ run.stats.new = 0 /\ run.stats.existing = 1
                /\ hist[1].stats.ads + run.stats.ads = 2
                /\ Counts = [tracks |-> 1, albums |-> 1, artists |-> 1,
                             composers |-> 0, ads |-> 2]

\* The second run over that feed has returned.
C15_Witness ==
    data = <<T8, AdRecord("paid")>> /\ Len(hist) = 1 /\ run.status = "done"

---------------------------------------------------------------------------
(* Rows after their creation.                                              *)

\* C16: first write wins.  No step of a run or of the queue removes or
\* changes a stored Track, Artist, Composer or Ad row, and a stored Album
\* row changes in its localImage at most; a record that matches a stored
\* row by identity and differs from it elsewhere leaves the row as it was.
C16_FirstWriteWins ==
    [][/\ tracks \subseteq tracks' /\ artists \subseteq artists'
       /\ composers \subseteq composers' /\ ads \subseteq ads'
       /\ \A b \in albums :
             \E a \in albums' : [a EXCEPT !.localImage = b.localImage] = b]_vars

\* The record read last matched a stored Track by its external id and a
\* stored Artist by its external id, with another filename and another
\* display name than the rows have.
C16_Witness ==
    /\ last.track.st = "hit" /\ last.artist.st = "hit"
    /\ \E r \in tracks : r._id = last.track.ref /\ r.originalId = TrackId(last.item)
                         /\ r.fn # last.item.fn
    /\ \E r \in artists : r._id = last.artist.ref
                          /\ r.artistdisplay # last.item.artist.artistdisplay

---------------------------------------------------------------------------
(* Refresh requests that overlap.                                          *)

\* C17: at most one ingestion run is active at any time: a refresh request
\* that arrives while a run is active starts no second run.
C17_RunsSerialized == ~(run.status = "running" /\ other.status = "running")

---------------------------------------------------------------------------
(* Erase, export and import.                                               *)

\* The step that serves a request of this kind.
Serves(op) == ops' # ops /\ reply'.op = op

\* C18: DELETE /all leaves the five collections empty and answers with the
\* number of rows that each of the five held just before.
C18_EraseReturnsCounts ==
    [][Serves("erase") =>
          /\ tracks' = {} /\ albums' = {} /\ artists' = {} /\ composers' = {}
          /\ ads' = {}
          /\ \A kind \in DOMAIN Counts :
                /\ kind \in DOMAIN reply'.deleted
                /\ reply'.deleted[kind] = Counts[kind]]_vars

\* The valid documents of a batch: they pass validation and share neither
\* their _id nor their external id with another document of the batch that
\* passes it.  Having no external id is not a clash.
ValidRows(kind, docs) ==
    {d \in docs :
        /\ Validates(kind, d)
        /\ \A e \in docs :
              (e # d /\ Validates(kind, e))
                 => /\ e._id # d._id
                    /\ kind # "ads" => (d.originalId = Null \/ e.originalId # d.originalId)}

\* After an import, rows holds nothing but documents of the batch, and
\* every valid document of the batch.
Replaced(kind, rows, docs) ==
    /\ rows \subseteq {castDoc(d) : d \in docs}
    /\ \A d \in ValidRows(kind, docs) : castDoc(d) \in rows

\* C19: an import that is answered 200 replaces the store: in each of the
\* five collections no row remains but rows of the archive, and every valid
\* row of the archive is there, whatever rows of its batch or of an earlier
\* batch failed to insert.
C19_ImportReplacesStore ==
    [][(Serves("import") /\ reply'.status = 200) =>
          /\ Replaced("albums", albums', reply'.upload.albums)
          /\ Replaced("artists", artists', reply'.upload.artists)
          /\ Replaced("composers", composers', reply'.upload.composers)
          /\ Replaced("tracks", tracks', reply'.upload.tracks)
          /\ Replaced("ads", ads', reply'.upload.ads)]_vars

\* The import of an export as it was downloaded, answered 200.
RoundTrip ==
    /\ Serves("import")
    /\ reply'.status = 200
    /\ archive.manifest
    /\ reply'.upload = archive

\* C20: importing an archive as it was exported restores exactly the rows
\* that were exported, in all five collections, with their surrogate ids,
\* the references of the tracks and the cached-image paths of the albums,
\* whatever happened to the store in between, and every image file of the
\* archive is in the image directory afterwards.
C20_ExportImportRoundTrip ==
    [][RoundTrip =>
          /\ tracks' = archive.source.tracks
          /\ albums' = archive.source.albums
          /\ artists' = archive.source.artists
          /\ composers' = archive.source.composers
          /\ ads' = archive.source.ads
          /\ archive.imgs \subseteq files']_vars

\* The import of an export in which a track refers to an album with a cached
\* image, with a request in between: the rows are back.
C20_Witness ==
    /\ reply.op = "import" /\ reply.status = 200
    /\ reply.upload = archive
    /\ ops = MaxOps
    /\ reply.upload.imgs # {}
    /\ tracks = archive.source.tracks
    /\ albums = archive.source.albums
    /\ \E t \in tracks : \E a \in albums :
          /\ t.album = a._id
          /\ t.artist # NoRef
          /\ a.localImage # NoPath

---------------------------------------------------------------------------
(* The order of the records within a run.                                  *)

\* The two records of the feed carry the same usable sub-object of a kind:
\* present in both, with the same external id and its mandatory field.
SameAlbum(feed) ==
    /\ \A k \in 1..2 : /\ feed[k].album.present
                         /\ ~Missing(feed[k].album.title)
                         /\ extractId(feed[k].album._id) # Null
    /\ extractId(feed[1].album._id) = extractId(feed[2].album._id)
SameArtist(feed) ==
    /\ \A k \in 1..2 : /\ feed[k].artist.present
                         /\ extractId(feed[k].artist._id) # Null
    /\ extractId(feed[1].artist._id) = extractId(feed[2].artist._id)
SameComposer(feed) ==
    /\ \A k \in 1..2 : /\ feed[k].composer.present
                         /\ extractId(feed[k].composer._id) # Null
    /\ extractId(feed[1].composer._id) = extractId(feed[2].composer._id)

\* The Track rows a record stands for: the row with its external id, or
\* with its (artist, title, filename).
RowsFor(item) ==
    {t \in tracks : \/ (TrackId(item) # Null /\ t.originalId = TrackId(item))
                     \/ SameContent(t, item)}

\* Exactly one row of rows carries the external id, and the Track rows of
\* both records of the feed refer to it in field f.
OneRowForBoth(rows, originalId, feed, f) ==
    /\ Cardinality({r \in rows : r.originalId = originalId}) = 1
    /\ \A r \in rows : r.originalId = originalId =>
          \A k \in 1..2 : \E t \in RowsFor(feed[k]) : t[f] = r._id

\* A feed of two well-formed Track records that carry the same Album,
\* Artist or Composer, or that are the same record.
TwoTracks(feed) ==
    /\ Len(feed) = 2
    /\ \A k \in 1..2 : IsTrackRecord(feed[k]) /\ RestWellFormed(feed[k])
    /\ SameAlbum(feed) \/ SameArtist(feed) \/ SameComposer(feed) \/ feed[1] = feed[2]

\* C21: the records of a run are processed in feed order and each sees what
\* the earlier ones left.  The first run over a feed of two Track records
\* that carry the same Album (Artist, Composer) external id returns, and
\* leaves exactly one row of that kind, to which the Track rows of both
\* records refer; over a feed of the same Track record twice it counts one
\* new and one existing.
C21_RecordsInFeedOrder ==
    TwoTracks(data) =>
       /\ run.status # "failed"
       /\ (Len(hist) = 0 /\ run.status = "done") =>
             /\ SameAlbum(data) =>
                   OneRowForBoth(albums, extractId(data[1].album._id), data, "album")
             /\ SameArtist(data) =>
                   OneRowForBoth(artists, extractId(data[1].artist._id), data, "artist")
             /\ SameComposer(data) =>
                   OneRowForBoth(composers, extractId(data[1].composer._id), data,
                                 "composer")
             /\ data[1] = data[2] =>
                   run.stats.new = 1 /\ run.stats.existing = 1

---------------------------------------------------------------------------
(* Identity of a Track record: external id first, then content.            *)

\* This step is an iteration of the loop on a Track record that came as far
\* as its Track stage.
TrackStage ==
    /\ read' = read + 1
    /\ IsTrackRecord(last'.item)
    /\ last'.track.st # "skip"

\* C22: a hit on the external id is authoritative.  A Track record whose
\* external id is that of a stored Track resolves to that row and creates
\* none, whether its (artist, title, filename) is that of the row, of no
\* row, or of another stored row.
C22_ExternalIdAuthoritative ==
    [][TrackStage =>
          \A r \in tracks :
             (r.originalId # Null /\ r.originalId = TrackId(last'.item))
                => /\ last'.track = [st |-> "hit", ref |-> r._id]
                   /\ tracks' = tracks
                   /\ run'.stats.existing = run.stats.existing + 1]_vars

\* The record read last resolved to the row with its external id, which has
\* another filename, while another stored row has the record's content.
C22_Witness ==
    /\ last.track.st = "hit"
    /\ \E r \in tracks : /\ r._id = last.track.ref
                         /\ r.originalId = TrackId(last.item)
                         /\ ~SameContent(r, last.item)
    /\ \E o \in tracks : o._id # last.track.ref /\ SameContent(o, last.item)

\* C23: a content match is authoritative across differing ids.  A Track
\* record whose external id is not that of a stored Track and whose (artist,
\* title, filename) is that of a stored Track resolves to that row, is
\* counted as existing and creates no row, whether the two external ids
\* differ or one of them is missing; the rows stay as they were, so the
\* record's own external id is stored nowhere.
C23_ContentMatchAuthoritative ==
    [][TrackStage =>
          \A r \in Oldest({t \in tracks : SameContent(t, last'.item)}) :
             (\A t \in tracks : TrackId(last'.item) = Null
                                 \/ t.originalId # TrackId(last'.item))
                => /\ last'.track = [st |-> "hit", ref |-> r._id]
                   /\ run'.stats.existing = run.stats.existing + 1
                   /\ run'.stats.new = run.stats.new
                   /\ tracks' = tracks
                   /\ TrackId(last'.item) # Null =>
                         \A t \in tracks' : t.originalId # TrackId(last'.item)]_vars

\* The record read last has an external id and resolved, by its content, to
\* a row with another external id; no row has the record's id.
C23_Witness ==
    /\ last.track.st = "hit"
    /\ TrackId(last.item) # Null
    /\ \E r \in tracks : /\ r._id = last.track.ref
                         /\ SameContent(r, last.item)
                         /\ r.originalId # Null
                         /\ r.originalId # TrackId(last.item)
    /\ \A t \in tracks : t.originalId # TrackId(last.item)

\* A feed of two well-formed Track records without external id, with
\* different (artist, title, filename).
TwoIdlessTracks(feed) ==
    /\ Len(feed) = 2
    /\ \A k \in 1..2 : /\ IsTrackRecord(feed[k]) /\ RestWellFormed(feed[k])
                         /\ TrackId(feed[k]) = Null
    /\ ~SameContent(feed[1], feed[2])

\* C24: a missing external id never prevents the creation of a Track.  The
\* first run over a feed of two Track records without external id and with
\* different (artist, title, filename) returns tracksNew = 2 and leaves a
\* Track row for each of the two.
C24_IdlessTracksCreated ==
    TwoIdlessTracks(data) =>
       /\ run.status # "failed"
       /\ (Len(hist) = 0 /\ run.status = "done") =>
             /\ run.stats.new = 2
             /\ \A k \in 1..2 : \E t \in tracks : SameContent(t, data[k])
             /\ Cardinality(tracks) = 2

---------------------------------------------------------------------------
(* Ads and tracks.                                                         *)

\* C25: a record is handled as an Ad exactly when its artist is 'runspot'
\* and its title is 'sweeper'; a record with one of the two is handled as a
\* Track.  Handling an Ad resolves and creates no Track, Album, Artist or
\* Composer row and calls for no asset, whatever sub-objects it carries.
C25_AdClassification ==
    [][(read' = read + 1 /\ last'.item.obj) =>
          /\ (last'.ad.st # "skip")
                <=> (last'.item.track_artist = "runspot" /\ last'.item.title = "sweeper")
          /\ (last'.ad.st = "skip") <=> (last'.album.st # "skip")
          /\ last'.ad.st # "skip" =>
                /\ last'.album = Skip /\ last'.artist = Skip
                /\ last'.composer = Skip /\ last'.track = Skip
                /\ UNCHANGED <<tracks, albums, artists, composers>>
                /\ last'.asked = <<>>
                /\ UNCHANGED queue]_vars

\* An ad with an Album, an Artist and a Composer sub-object was stored, and
\* a record with the artist 'runspot' and another title gave a Track row.
C25_Witness ==
    /\ last.item = AdWithSubObjects
    /\ last.ad.st = "new"
    /\ \E a \in ads : a._id = last.ad.ref
    /\ \E t \in tracks : t.track_artist = "runspot" /\ t.title # "sweeper"
    /\ albums = {}

---------------------------------------------------------------------------
(* Calls for an asset from the pipeline.                                   *)

\* The Album row that the iteration resolved to has no cached image: it was
\* created in this step, or it was stored without localImage.
NoCachedImage ==
    \/ last'.album.st = "new"
    \/ \E a \in albums : a._id = last'.album.ref /\ NoImage(a.localImage)

\* C26: an iteration on a Track record whose Album sub-object resolves to a
\* stored row or creates one calls queueImageDownload exactly when the
\* sub-object has a cdcover and the row has no cached image, once, for that
\* cdcover and that Album; an iteration whose Album sub-object gives no row
\* makes no call, so resolving or creating an Artist or a Composer calls
\* for nothing.
C26_FetchRequestedIff ==
    [][(read' = read + 1 /\ IsTrackRecord(last'.item)) =>
          IF last'.album.st \in {"hit", "new"}
          THEN /\ (last'.asked # <<>>)
                     <=> (last'.item.album.cdcover # NoCover /\ NoCachedImage)
               /\ last'.asked # <<>> =>
                     last'.asked = << <<last'.item.album.cdcover, last'.album.ref>> >>
          ELSE last'.asked = <<>>]_vars

\* A record with a cdcover found its Album with a cached image and made no
\* call, while it resolved its Artist and its Composer.
C26_Witness ==
    /\ last.album.st = "hit" /\ last.artist.st = "hit" /\ last.composer.st = "hit"
    /\ last.item.album.cdcover # NoCover
    /\ \E a \in albums : a._id = last.album.ref /\ a.localImage # NoPath
    /\ last.asked = <<>>

---------------------------------------------------------------------------
(* The worker's update of the owning Album.                                *)

\* The entries the queue holds, pending or in the worker's hand.
Held ==
    {[cdcover |-> e.cdcover, albumId |-> e.albumId, localPath |-> e.localPath] :
        e \in {imageQueue[k] : k \in 1..Len(imageQueue)} \cup ({cur} \ {NoItem})}

\* C27: the worker writes the file of a download and only then sets the
\* localImage of the Album whose id was given when the cover was enqueued.
\* Every entry the queue takes is the one of a queueImageDownload call, with
\* the Album id and the cache path of that call; the step that ends a
\* download with success writes the file and changes no Album; and a stored
\* Album changes its localImage only in the worker's update, to the path of
\* the entry in hand, whose file is written, and only the Album of that
\* entry.
C27_WriteThenUpdateOwner ==
    [][/\ \A e \in Held' \ Held :
             /\ <<e.cdcover, e.albumId>> \in {last'.asked[k] : k \in 1..Len(last'.asked)}
             /\ read' = read + 1
             /\ e.localPath = getLocalPath(e.cdcover)
       /\ (wpc = "request" /\ wpc' = "update") =>
             /\ existsSync(files', cur.localPath)
             /\ albums' = albums
       /\ \A a \in albums' : \A b \in RowOf(albums, a._id) :
             b.localImage # a.localImage
                => /\ wpc = "update" /\ wpc' = "delay"
                   /\ cur.albumId = a._id
                   /\ a.localImage = cur.localPath
                   /\ existsSync(files, cur.localPath)
                   /\ writes[cur.cdcover] >= 1]_vars

\* The worker has applied a download: the file of the entry in hand is
\* written and the Album of the entry has its path.
C27_Witness ==
    /\ wpc = "delay"
    /\ writes[cur.cdcover] = 1
    /\ existsSync(files, cur.localPath)
    /\ \E a \in albums : a._id = cur.albumId /\ a.localImage = cur.localPath
    /\ \E a \in albums : a._id # cur.albumId /\ a.localImage = NoPath

---------------------------------------------------------------------------
(* Albums and the files of their covers.                                   *)

\* C28: whenever the worker is idle and nothing is pending, every stored
\* Album with a cdcover whose file is in the image directory has a
\* localImage.
C28_CachedAssetApplied ==
    (wpc = "idle" /\ ~isProcessingImages /\ imageQueue = <<>>) =>
       \A a \in albums :
          (a.cdcover # NoCover /\ existsSync(files, getLocalPath(a.cdcover)))
             => ~NoImage(a.localImage)

---------------------------------------------------------------------------
(* The repair path.                                                        *)

\* C29: POST /images/download calls queueImageDownload for every listed
\* Album that has a cdcover and no cached image, the Albums that the
\* pipeline created with localImage null included.
C29_RepairEnqueuesMissing ==
    [][(Serves("repair") /\ reply'.status = 200) =>
          \A a \in albums :
             (a._id \in reply'.albumIds /\ a.cdcover # NoCover /\ NoImage(a.localImage))
                => <<a.cdcover, a._id>> \in
                      {reply'.asked[k] : k \in 1..Len(reply'.asked)}]_vars

---------------------------------------------------------------------------
(* One worker.                                                             *)

\* This step made calls of queueImageDownload, from the pipeline or from
\* the repair path.
Enqueues ==
    \/ read' = read + 1 /\ last'.asked # <<>>
    \/ Serves("repair") /\ reply'.asked # <<>>

\* The pending entries, without their bookkeeping.
Pending(q) == [k \in 1..Len(q) |-> [q[k] EXCEPT !.dup = FALSE]]

\* C30: there is one worker.  At most one call of processImageQueue is
\* inside its loop, it is there exactly while the draining flag is set, and
\* a download is in flight only within it; calls of queueImageDownload that
\* arrive while the worker drains, from the pipeline or from the repair
\* path, only append to the pending list: they start no loop and no
\* download and leave the entry in the worker's hand alone.
C30_SingleWorker ==
    [][/\ loops' \in {0, 1}
       /\ (loops' = 1) <=> isProcessingImages'
       /\ wpc' # "idle" => loops' = 1
       /\ (isProcessingImages /\ Enqueues) =>
             /\ loops' = loops /\ isProcessingImages'
             /\ wpc' = wpc /\ cur' = cur /\ reqs' = reqs
             /\ Len(imageQueue') >= Len(imageQueue)
             /\ SubSeq(Pending(imageQueue'), 1, Len(imageQueue)) = Pending(imageQueue)]_vars

\* While a download of the pipeline is in flight the repair path has made
\* two calls; both entries are pending and one loop is running.
C30_Witness ==
    /\ reply.op = "repair" /\ Len(reply.asked) = 2
    /\ wpc = "request" /\ cur.cdcover = CoverA
    /\ Len(imageQueue) = 2
    /\ loops = 1 /\ isProcessingImages

---------------------------------------------------------------------------
(* The worker comes to rest.                                               *)

\* Every await of the worker's loop resolves: axios.get has a timeout
\* (parser.js 99), so a download ends with data or with a failure; the
\* update of the Album is answered; the pacing timer fires (parser.js 75).
\* Nothing makes a run start or go on.
SpecDrain ==
    /\ Spec
    /\ WF_vars(Downloaded \/ DownloadFailed)
    /\ WF_vars(AlbumUpdated)
    /\ WF_vars(DelayElapsed)

\* The HTTP requests issued so far, over all covers.
Requests(r) == r[CoverA] + r[CoverB] + r[CoverC]

\* This step shifts an entry off the pending list: the loop goes round
\* (parser.js 70-71), or a call of queueImageDownload finds the worker idle
\* and the loop is entered with the entry it pushed.
Popped ==
    \/ Len(imageQueue') < Len(imageQueue)
    \/ wpc = "idle" /\ wpc' # "idle"

\* C31: with finitely many enqueues and downloads that all end, the worker
\* comes back to idle with an empty pending list and stays there; and each
\* entry it popped was attempted exactly once: the step that pops an entry
\* calls downloadImageNow for it, which issues one request, or none when the
\* file is there; no other step issues a request or changes the entry in
\* hand; and the pending list grows only by calls of queueImageDownload,
\* never by an entry that was attempted.
C31_WorkerTerminates ==
    /\ <>[](wpc = "idle" /\ ~isProcessingImages /\ imageQueue = <<>> /\ cur = NoItem)
    /\ [][/\ Popped =>
                /\ wpc' \in {"request", "cached"}
                /\ IF wpc = "idle"
                   THEN <<cur'.cdcover, cur'.albumId>> \in
                           {last'.asked[k] : k \in 1..Len(last'.asked)}
                   ELSE cur' = Head(imageQueue) /\ imageQueue' = Tail(imageQueue)
                /\ Requests(reqs') = Requests(reqs) + (IF wpc' = "request" THEN 1 ELSE 0)
                /\ reqs'[cur'.cdcover] >= reqs[cur'.cdcover]
          /\ ~Popped =>
                /\ reqs' = reqs
                /\ cur' = cur \/ (wpc' = "idle" /\ imageQueue = <<>>)
          /\ Len(imageQueue') > Len(imageQueue) =>
                read' = read + 1 /\ last'.asked # <<>>]_vars

\* The worker is idle after two entries: the download of one cover gave a
\* file, the download of the other failed and was not tried again.
C31_Witness ==
    /\ wpc = "idle" /\ ~isProcessingImages /\ imageQueue = <<>>
    /\ reqs[CoverA] = 1 /\ writes[CoverA] = 1
    /\ reqs[CoverC] = 1 /\ writes[CoverC] = 0

---------------------------------------------------------------------------
(* The order of the downloads.                                             *)

\* C32: downloads are started in the order in which their entries were
\* appended.  A step that pops an entry while entries are pending takes the
\* oldest one, starts its download and leaves the others in their order; a
\* step that pops nothing keeps the pending entries in their places and puts
\* a new entry behind them; an entry pushed onto an empty list with the
\* worker idle is the one whose download starts.
C32_FifoOrder ==
    [][/\ (Popped /\ imageQueue # <<>>) =>
             /\ cur' = Head(imageQueue)
             /\ wpc' \in {"request", "cached"}
             /\ Pending(imageQueue') = Tail(Pending(imageQueue))
       /\ (Popped /\ imageQueue = <<>>) =>
             /\ <<cur'.cdcover, cur'.albumId>> = last'.asked[1]
             /\ wpc' \in {"request", "cached"}
             /\ imageQueue' = <<>>
       /\ ~Popped =>
             /\ Len(imageQueue') >= Len(imageQueue)
             /\ SubSeq(Pending(imageQueue'), 1, Len(imageQueue)) = Pending(imageQueue)
             /\ cur' = cur \/ wpc' = "idle"]_vars

\* Two entries were pending behind a download; the one for CoverC was
\* appended last, by the most recent record; the worker has started the
\* download of the other and the entry for CoverC still waits.
C32_Witness ==
    /\ wpc = "request" /\ cur.cdcover = CoverB
    /\ Len(imageQueue) = 1 /\ imageQueue[1].cdcover = CoverC
    /\ last.item = T5 /\ last.asked = <<<<CoverC, imageQueue[1].albumId>>>>
    /\ reqs[CoverA] = 1

---------------------------------------------------------------------------
(* Runs and downloads.                                                     *)

\* The rows of the store without what the worker writes into them.
StoredRows(A, R, K, T, D) ==
    [albums |-> {[_id |-> a._id, originalId |-> a.originalId, title |-> a.title,
                  cdcover |-> a.cdcover] : a \in A},
     artists |-> R, composers |-> K, tracks |-> T, ads |-> D]

\* The store and the queue as they would be had no download been started,
\* and had every download been made and applied.
IdleQueue == [QueueState EXCEPT !.imageQueue = <<>>, !.isProcessingImages = FALSE,
                                !.wpc = "idle", !.cur = NoItem, !.loops = 0]
NoneDownloaded ==
    [Context EXCEPT !.albums = {[a EXCEPT !.localImage = NoPath] : a \in @},
                    !.Q = IdleQueue]
AllDownloaded ==
    [Context EXCEPT !.albums = {IF a.cdcover # NoCover
                                THEN [a EXCEPT !.localImage = getLocalPath(a.cdcover)]
                                ELSE a : a \in @},
                    !.Q = IdleQueue]

\* The iteration on item from context C with the files fs leaves the rows
\* that this step leaves, with the outcomes this step recorded.
SameResult(C, fs, item) ==
    LET it == Iteration(C, fs, item)
    IN  /\ StoredRows(it.C.albums, it.C.artists, it.C.composers, it.C.tracks, it.C.ads)
             = StoredRows(albums', artists', composers', tracks', ads')
        /\ it.C.nextId = nextId'
        /\ it.threw = last'.threw
        /\ <<it.album, it.artist, it.composer, it.track, it.ad>>
             = <<last'.album, last'.artist, last'.composer, last'.track, last'.ad>>
        /\ run'.stats = Count(run.stats, it)

\* A step of the worker: the queue or the image directory changes and no
\* record is read.
WorkerStep == read' = read /\ (wpc' # wpc \/ cur' # cur \/ files' # files)

\* C33: a run never waits for downloads.  Whatever the worker is doing, a
\* run that has records left can take its next record and a run that has
\* read them all can return its stats; a step of the worker changes neither
\* the run nor any row beyond the cached-image path of an Album; and what an
\* iteration stores, finds and counts is what it would store, find and count
\* had no download been made and had every download been made.
C33_IngestNeverWaits ==
    /\ [](/\ (run.status = "running" /\ run.i < run.n) => ENABLED ProcessRecord
          /\ (run.status = "running" /\ run.i = run.n) => ENABLED Return)
    /\ [][/\ WorkerStep =>
                /\ run' = run
                /\ StoredRows(albums', artists', composers', tracks', ads')
                      = StoredRows(albums, artists, composers, tracks, ads)
          /\ read' = read + 1 =>
                /\ SameResult(NoneDownloaded, {}, last'.item)
                /\ SameResult(AllDownloaded, {getLocalPath(c) : c \in Covers},
                              last'.item)]_vars

\* A run has returned its stats, with a new Track and a new Album counted,
\* while the download of the cover it enqueued is in flight: nothing is
\* written and the Album has no cached image.
C33_Witness ==
    /\ run.status = "done" /\ run.n >= 1 /\ run.stats.new >= 1
    /\ wpc = "request" /\ reqs[cur.cdcover] = 1 /\ writes[cur.cdcover] = 0
    /\ \E a \in albums : a._id = cur.albumId /\ a.localImage = NoPath
    /\ hist = <<>> /\ read = run.n

---------------------------------------------------------------------------
(* Store failures.                                                         *)

\* The rows of the five collections, Albums without their cached image.
Persisted == StoredRows(albums, artists, composers, tracks, ads)

\* The stage outcome o of the iteration that just ended names a row of rows.
Saved(o, rows) == o.st \in {"new", "hit"} => \E r \in rows : r._id = o.ref

\* C34: a store failure in a run propagates.  The iteration in which a
\* store call is rejected, by a constraint or because the store does not
\* answer, ends the run as failed at that record, with its stats as they
\* were; a failed run reads no further record; the rows of the earlier
\* records and the rows that the earlier stages of the failing record
\* saved are in the store, and no later step of the run or of the worker
\* removes a row.
C34_StoreFailurePropagates ==
    [][/\ (read' = read + 1 /\ last'.threw) =>
             /\ run'.status = "failed"
             /\ run'.i = run.i /\ run'.stats = run.stats
             /\ Saved(last'.album, albums') /\ Saved(last'.artist, artists')
             /\ Saved(last'.composer, composers')
       /\ run.status = "failed" =>
             /\ read' = read
             /\ run' = run \/ (run'.status = "running" /\ run'.i = 0)
       /\ \A kind \in {"albums", "artists", "composers", "tracks", "ads"} :
             Persisted[kind] \subseteq Persisted'[kind]]_vars

\* A run of three records has failed at its second: the unique index
\* rejected the Track, after the record's Album and Artist were created;
\* they are in the store beside the Track of the first record, and the third
\* record is not read.
C34_Witness ==
    /\ run.status = "failed" /\ run.i = 1 /\ run.n = 3 /\ read = 2
    /\ last.item = T10 /\ last.track.st = "threw"
    /\ last.album.st = "new" /\ last.artist.st = "new"
    /\ \E a \in albums : a._id = last.album.ref
    /\ \E r \in artists : r._id = last.artist.ref
    /\ Cardinality(tracks) = 1

---------------------------------------------------------------------------
(* Overlapping runs and the identity of rows.                              *)

\* No two Track rows with the same (track_artist, title, fn).
UniqueTriple(rows) ==
    \A r1 \in rows, r2 \in rows :
        (/\ r1.track_artist = r2.track_artist
         /\ r1.title = r2.title
         /\ r1.fn = r2.fn) => r1 = r2

\* C35: when two calls of parseAndStore whose store operations interleave
\* have both ended, the store has at most one row per kind and external id
\* and at most one Track row per (track_artist, title, fn).
C35_OverlapKeepsIdentity ==
    (run.status # "running" /\ other.status # "running") =>
       /\ UniqueOriginalId(albums) /\ UniqueOriginalId(artists)
       /\ UniqueOriginalId(composers) /\ UniqueOriginalId(tracks)
       /\ UniqueTriple(tracks)

---------------------------------------------------------------------------
(* Runs one after the other.                                               *)

\* C36: after any sequence of runs that do not overlap, no two Track rows
\* have the same (track_artist, title, fn), whether the rows carry an
\* external id or not.
C36_OneTrackPerTriple == UniqueTriple(tracks)

\* A run has ended whose last record carried an external id and the content
\* of a stored Track without one: it resolved to that row, and the store
\* holds it beside a Track that has an external id.
C36_Witness ==
    /\ run.status = "done"
    /\ last.item = T1 /\ last.track.st = "hit"
    /\ \E r \in tracks : r._id = last.track.ref /\ r.originalId = Null
    /\ \E r \in tracks : r.originalId # Null

---------------------------------------------------------------------------
(* References of Track rows.                                               *)

\* The reference ref is null or is the _id of a row of rows.
Resolves(ref, rows) == ref = NoRef \/ \E r \in rows : r._id = ref

\* C37: in every state, through runs and erase-all requests, an erase
\* between two store operations of a running call included, each album,
\* artist and composer reference of a Track row that is not null is the _id
\* of a stored row.
C37_ReferencesResolve ==
    \A t \in tracks :
       /\ Resolves(t.album, albums)
       /\ Resolves(t.artist, artists)
       /\ Resolves(t.composer, composers)

---------------------------------------------------------------------------
(* The stats of a run.                                                     *)

\* C38: the stats of a run that completed account for every record:
\* tracks.new + tracks.existing + ads is the number of items of the feed;
\* and, nothing else having written to the store since the run began, the
\* number of Track rows has grown by tracks.new and the number of Ad rows by
\* ads, so the difference of the track counts that POST /refresh reports
\* before and after is its newTracks.
C38_StatsAccountForRecords ==
    run.status = "done" =>
       /\ run.stats.new + run.stats.existing + run.stats.ads = run.n
       /\ Counts.tracks - run.before.tracks = run.stats.new
       /\ Counts.ads - run.before.ads = run.stats.ads
       /\ getStats.tracks - run.before.tracks = run.stats.new

\* A run of three records has completed: one Track was new, one was found,
\* one record was an ad.
C38_Witness ==
    /\ run.status = "done" /\ run.n = 3
    /\ run.stats = [new |-> 1, existing |-> 1, ads |-> 1]
    /\ Cardinality(tracks) = 1 /\ Cardinality(ads) = 1

---------------------------------------------------------------------------
(* The entries of the pending list.                                        *)

\* The cdcover values of the pending entries.
PendingCovers == {imageQueue[k].cdcover : k \in 1..Len(imageQueue)}

\* The entries this step pushed: those behind the entries that were
\* pending, and, when the step found the worker idle, the one whose download
\* it started.
Pushed ==
    IF wpc = "idle" /\ wpc' # "idle"
    THEN {cur'} \cup {imageQueue'[k] : k \in 1..Len(imageQueue')}
    ELSE {imageQueue'[k] : k \in (Len(imageQueue) + 1)..Len(imageQueue')}

=============================================================================
